---- MODULE Spec2Model ----
(***************************************************************************)
(* Model of the notification delivery pipeline of ai-news-notifier:        *)
(* the deduplication cache (CacheService / DeduplicationService), the      *)
(* retry executor (RetryHandler), the message packer                       *)
(* (MessageFormatter._splitIntoChunks), the delivery sequencer             *)
(* (DiscordNotifier) and the run that ties them together (main).           *)
(*                                                                         *)
(* Time is counted in days.  A fingerprint is the pair <<source, url>>:    *)
(* Article._generateId hashes the string "source:url" with SHA-256, which  *)
(* is taken to be collision free.                                          *)
(***************************************************************************)
EXTENDS Integers, Sequences, FiniteSets, TLC

\* ------------------------------------------------------------------ bounds
\* longest list handed to filterNew
MaxItems == 2
\* the clock stops advancing once it has reached MaxNow
MaxNow == 31
\* longest section handed to the packer, in characters
MaxSecLen == 3
\* the hard-split loop is followed for at most MaxSplitChunks emitted chunks
MaxSplitChunks == 8
\* chunks handed to one send
MaxChunks == 2
\* runs of the program in a row
MaxRuns == 2
\* scheduled runs in a row
MaxScheduled == 3

\* --------------------------------------------------------------- constants
\* CACHE_CONFIG.retentionDays
retentionDays == 30
\* CACHE_CONFIG.version
CACHE_VERSION == "1.0"
\* the partitions _createEmptyCache creates
SourceKeys == {"hackernews", "qiita", "zenn"}

VARIABLES
  disk,     \* the backing file seen.json
  cache,    \* CacheService._cache
  loaded,   \* DeduplicationService._loaded
  now,      \* the wall clock, in days
  last,     \* the last store operation: its arguments, its result
  saved,    \* the partitions in memory at the last successful save
  packer,   \* one call of MessageFormatter._splitIntoChunks: its arguments,
            \* its locals and where it stands
  retry,    \* one call of RetryHandler.execute: the handler's configuration,
            \* the wrapped operation, the locals and where it stands
  sender,   \* one call of DiscordNotifier.send: its argument, its locals,
            \* where it stands, and the transport calls and waits so far
  run,      \* one process running main(): its flags and environment, its
            \* locals, where it stands, and its exit code
  ids,      \* two constructions of an Article for one source: the URLs given
            \* and, once constructed, the url and id fields
  slept     \* the milliseconds a call of RetryHandler.execute made on its own
            \* has spent in _sleep so far

storeVars == <<disk, cache, loaded, now, last, saved>>
\* what the store's operations leave alone
notStore == <<packer, retry, sender, run, ids, slept>>
notPacker == <<retry, sender, run, ids, slept>>
notRetry == <<packer, sender, run, ids>>
vars == <<disk, cache, loaded, now, last, saved, packer, retry, sender, run, ids, slept>>

\* ------------------------------------------------------------------ values
EmptyMap == [h \in {} |-> 0]

\* Article: source, normalized url, publishedAt (hasDate = FALSE: null;
\* otherwise age days before the article is handed to filterNew)
ItemSources == {"hackernews", "qiita"}
\* normalized urls (Article.url)
Urls == {"https://example.com/a"}
\* publishedAt, when a feed item carries one, as an age in days
PubAges == {retentionDays + 1}

Article(src, url, hasDate, age) ==
  [source |-> src, url |-> url, hasDate |-> hasDate, age |-> age]

Articles ==
  { Article(s, u, FALSE, 0) : s \in ItemSources, u \in Urls }
  \cup { Article(s, u, TRUE, a) : s \in ItemSources, u \in Urls, a \in PubAges }

RECURSIVE SeqsUpTo(_, _)
SeqsUpTo(S, n) ==
  IF n = 0 THEN { <<>> }
  ELSE LET shorter == SeqsUpTo(S, n - 1)
       IN  shorter \cup { Append(q, x) : q \in { r \in shorter : Len(r) = n - 1 }, x \in S }

ItemLists == SeqsUpTo(Articles, MaxItems)

\* Article.getHash / _generateId
getHash(article) == <<article.source, article.url>>

\* the in-memory cache object; isNull: this._cache is null;
\* hasArticles = FALSE: the object has no "articles" property
NullCache ==
  [isNull |-> TRUE, version |-> "", lastUpdated |-> 0,
   hasArticles |-> FALSE, articles |-> EmptyMap]

createEmptyCache(t) ==
  [isNull |-> FALSE, version |-> CACHE_VERSION, lastUpdated |-> t,
   hasArticles |-> TRUE, articles |-> [s \in SourceKeys |-> EmptyMap]]

\* the backing file: absent, not JSON, the JSON value null, or a JSON object
\* holding a version, a lastUpdated and (hasArticles) the partitions as text:
\* the partition keys and one <<source, hash, timestamp>> line per entry
AbsentFile == [kind |-> "absent"]
GarbageFile == [kind |-> "garbage"]
JsonNullFile == [kind |-> "jsonnull"]
ObjectFile(version, t, hasArticles, keys, entries) ==
  [kind |-> "object", version |-> version, lastUpdated |-> t,
   hasArticles |-> hasArticles, keys |-> keys, entries |-> entries]

\* a serializer that writes the partition keys and loses their entries
StringifyKeysOnly(c) ==
  ObjectFile(c.version, c.lastUpdated, c.hasArticles, DOMAIN c.articles, {})

\* JSON.stringify(this._cache, null, 2)
Stringify(c) ==
  ObjectFile(c.version, c.lastUpdated, c.hasArticles,
             DOMAIN c.articles,
             UNION { { <<s, h, c.articles[s][h]>> : h \in DOMAIN c.articles[s] }
                     : s \in DOMAIN c.articles })

\* JSON.parse of an object file
ParseObject(f) ==
  [isNull |-> FALSE, version |-> f.version, lastUpdated |-> f.lastUpdated,
   hasArticles |-> f.hasArticles,
   articles |-> [s \in f.keys |->
                  [h \in { e[2] : e \in { x \in f.entries : x[1] = s } } |->
                    (CHOOSE e \in f.entries : e[1] = s /\ e[2] = h)[3]]]]

\* ------------------------------------------------- CacheService operations
\* Each returns the cache and the file after the call, whether it threw, and
\* (wrote) whether it rewrote the file in full.  w is what the file system
\* does to the write this call may make.
\* "ok"; "write_fail": mkdir or the open fails, the file is untouched;
\* "write_torn": the write fails under way, the file is left cut short
WriteOutcomes == {"ok", "write_fail", "write_torn"}

\* CacheService.has
has(c, hash) ==
  /\ ~c.isNull
  /\ c.hasArticles
  /\ \E s \in DOMAIN c.articles : hash \in DOMAIN c.articles[s]

\* add as it would be if it filed every entry under one fixed partition
addMisfiled(c, source, hash, ts) ==
  LET old == c.articles["zenn"]
  IN  [c EXCEPT !.articles["zenn"] =
         [h \in DOMAIN old \cup {hash} |-> IF h = hash THEN ts ELSE old[h]]]

\* CacheService.add, for a cache that has its articles map
add(c, source, hash, ts) ==
  LET old == IF source \in DOMAIN c.articles THEN c.articles[source] ELSE EmptyMap
      new == [h \in DOMAIN old \cup {hash} |-> IF h = hash THEN ts ELSE old[h]]
  IN  [c EXCEPT !.articles =
         [s \in DOMAIN c.articles \cup {source} |->
            IF s = source THEN new ELSE c.articles[s]]]

\* CacheService.save
\* save as it would be if it logged a failed write and returned
saveSwallow(c, f, t, w) ==
  IF c.isNull
  THEN [cache |-> c, disk |-> f, threw |-> TRUE, wrote |-> FALSE]
  ELSE LET c2 == [c EXCEPT !.lastUpdated = t]
       IN  CASE w = "ok" ->
                  [cache |-> c2, disk |-> Stringify(c2), threw |-> FALSE, wrote |-> TRUE]
             [] w = "write_fail" ->
                  [cache |-> c2, disk |-> f, threw |-> FALSE, wrote |-> FALSE]
             [] OTHER ->
                  [cache |-> c2, disk |-> GarbageFile, threw |-> FALSE, wrote |-> FALSE]

save(c, f, t, w) ==
  IF c.isNull
  THEN [cache |-> c, disk |-> f, threw |-> TRUE, wrote |-> FALSE]
  ELSE LET c2 == [c EXCEPT !.lastUpdated = t]
       IN  CASE w = "ok" ->
                  [cache |-> c2, disk |-> Stringify(c2), threw |-> FALSE, wrote |-> TRUE]
             [] w = "write_fail" ->
                  [cache |-> c2, disk |-> f, threw |-> TRUE, wrote |-> FALSE]
             [] OTHER ->
                  [cache |-> c2, disk |-> GarbageFile, threw |-> TRUE, wrote |-> FALSE]

\* CacheService.load
\* load as it would be if a missing or unreadable file only reset the store in
\* memory, without writing it.
loadNoPersist(f, t, w) ==
  IF f.kind = "object"
  THEN IF f.version # CACHE_VERSION
       THEN [cache |-> createEmptyCache(t), disk |-> f, threw |-> FALSE, wrote |-> FALSE]
       ELSE [cache |-> ParseObject(f), disk |-> f, threw |-> FALSE, wrote |-> FALSE]
  ELSE [cache |-> createEmptyCache(t), disk |-> f, threw |-> FALSE, wrote |-> FALSE]

load(f, t, w) ==
  IF f.kind = "object"
  THEN IF f.version # CACHE_VERSION
       THEN [cache |-> createEmptyCache(t), disk |-> f, threw |-> FALSE, wrote |-> FALSE]
       ELSE [cache |-> ParseObject(f), disk |-> f, threw |-> FALSE, wrote |-> FALSE]
  ELSE save(createEmptyCache(t), f, t, w)

\* CacheService.cleanup
\* cleanup as it would be if it purged the first partition only.
cleanupOnePartition(c, f, t, w) ==
  IF c.isNull \/ ~c.hasArticles
  THEN [cache |-> c, disk |-> f, threw |-> FALSE, wrote |-> FALSE]
  ELSE LET cutoff == t - retentionDays
           kept == [s \in DOMAIN c.articles |->
                     [h \in { x \in DOMAIN c.articles[s] :
                                s # "hackernews" \/ ~(c.articles[s][x] < cutoff) }
                        |-> c.articles[s][h]]]
       IN  IF kept # c.articles
           THEN save([c EXCEPT !.articles = kept], f, t, w)
           ELSE [cache |-> c, disk |-> f, threw |-> FALSE, wrote |-> FALSE]

cleanup(c, f, t, w) ==
  IF c.isNull \/ ~c.hasArticles
  THEN [cache |-> c, disk |-> f, threw |-> FALSE, wrote |-> FALSE]
  ELSE LET cutoff == t - retentionDays
           kept == [s \in DOMAIN c.articles |->
                     [h \in { x \in DOMAIN c.articles[s] : ~(c.articles[s][x] < cutoff) }
                        |-> c.articles[s][h]]]
       IN  IF kept # c.articles
           THEN save([c EXCEPT !.articles = kept], f, t, w)
           ELSE [cache |-> c, disk |-> f, threw |-> FALSE, wrote |-> FALSE]

\* the loop as it would be if it returned the new articles without marking
\* them as seen
RECURSIVE filterLoopNoMark(_, _, _, _, _)
filterLoopNoMark(c, items, i, acc, t) ==
  IF i > Len(items) THEN [cache |-> c, ret |-> acc, threw |-> FALSE]
  ELSE IF has(c, getHash(items[i])) THEN filterLoopNoMark(c, items, i + 1, acc, t)
       ELSE filterLoopNoMark(c, items, i + 1, Append(acc, items[i]), t)

\* the loop of DeduplicationService.filterNew over items[i..]; acc: newArticles
RECURSIVE filterLoop(_, _, _, _, _)
filterLoop(c, items, i, acc, t) ==
  IF i > Len(items) THEN [cache |-> c, ret |-> acc, threw |-> FALSE]
  ELSE LET article == items[i]
           hash == getHash(article)
       IN  IF has(c, hash) THEN filterLoop(c, items, i + 1, acc, t)
           ELSE IF c.isNull \/ ~c.hasArticles
                THEN [cache |-> c, ret |-> Append(acc, article), threw |-> TRUE]
                ELSE filterLoop(add(c, article.source, hash,
                                    IF article.hasDate THEN t - article.age ELSE t),
                                items, i + 1, Append(acc, article), t)

\* ------------------------------------------------------ the store's actions
\* last: the operation's name, its argument, what it returned, whether it
\* threw, the cache it worked on (after initialize), and about the operation
\* before it: repeat (that one was a filterNew of the same list which
\* returned), prevFull (and returned its whole list), prevFresh (and found
\* none of the list in the store)
NoOp == [name |-> "none", items |-> <<>>, ret |-> <<>>, threw |-> FALSE,
         pre |-> NullCache, repeat |-> FALSE, prevFull |-> FALSE,
         prevFresh |-> FALSE, found |-> "absent"]

InStore(c, hash) == \E s \in DOMAIN c.articles : hash \in DOMAIN c.articles[s]

\* the record of an operation that follows the operation recorded in last
Op(name, items, ret, threw, pre) ==
  LET rep == name = "filterNew" /\ last.name = "filterNew" /\ ~last.threw
             /\ last.items = items
  IN  [name |-> name, items |-> items, ret |-> ret, threw |-> threw, pre |-> pre,
       repeat |-> rep, found |-> disk.kind,
       prevFull |-> rep /\ last.ret = last.items,
       prevFresh |-> rep /\ \A i \in 1..Len(items) : ~InStore(last.pre, getHash(items[i]))]

\* saved after an operation with result r: a full write replaces it, a torn
\* write leaves no saved content behind
Saved(r, writtenArticles) ==
  IF r.wrote THEN [valid |-> TRUE, articles |-> writtenArticles]
  ELSE IF r.disk # disk THEN [valid |-> FALSE, articles |-> EmptyMap]
  ELSE saved

\* files the program may find when it first runs: none, a damaged one, one
\* holding the JSON value null, one of an older version, one of the expected
\* version without its articles map
InitFiles ==
  { AbsentFile, GarbageFile, JsonNullFile,
    ObjectFile("0.9", 0, TRUE, {"hackernews"}, { <<"hackernews", <<"hackernews", "https://example.com/a">>, 0>> }),
    ObjectFile(CACHE_VERSION, 0, FALSE, {}, {}) }

StoreInit ==
  /\ packer = [pc |-> "idle"]
  /\ ids = [pc |-> "idle"]
  /\ slept = 0
  /\ retry = [state |-> "idle"]
  /\ sender = [pc |-> "idle"]
  /\ run = [pc |-> "idle"]
  /\ disk \in InitFiles
  /\ cache = NullCache
  /\ loaded = FALSE
  /\ now = 0
  /\ last = NoOp
  /\ saved = [valid |-> FALSE, articles |-> EmptyMap]

\* a new process: the singletons of CacheService.js:184 and
\* DeduplicationService.js:84 are created afresh, the file stays
NewProcess ==
  /\ ~cache.isNull
  /\ cache' = NullCache
  /\ loaded' = FALSE
  /\ last' = Op("start", <<>>, <<>>, FALSE, NullCache)
  /\ UNCHANGED <<disk, now, saved, notStore>>

\* CacheService.load()
Load ==
  \E w \in WriteOutcomes :
    LET r == load(disk, now, w)
    IN  /\ cache' = r.cache
        /\ disk' = r.disk
        /\ saved' = Saved(r, r.cache.articles)
        /\ last' = Op("load", <<>>, <<>>, r.threw, NullCache)
        /\ UNCHANGED <<loaded, now, notStore>>

\* filterNew as it would be if initialize() did not set _loaded after the
\* load
DoFilterNewReload(items, w) ==
  LET init == IF loaded
              THEN [cache |-> cache, disk |-> disk, threw |-> FALSE, wrote |-> FALSE]
              ELSE load(disk, now, w)
      r == filterLoop(init.cache, items, 1, <<>>, now)
  IN  /\ disk' = init.disk
      /\ saved' = Saved(init, init.cache.articles)
      /\ loaded' = FALSE
      /\ IF init.threw
         THEN /\ cache' = init.cache
              /\ last' = Op("filterNew", items, <<>>, TRUE, init.cache)
         ELSE /\ cache' = r.cache
              /\ last' = Op("filterNew", items, IF r.threw THEN <<>> ELSE r.ret,
                            r.threw, init.cache)
      /\ UNCHANGED now

\* DeduplicationService.filterNew(articles), initialize() included; w is
\* what the file system does if the call writes
DoFilterNew(items, w) ==
  LET init == IF loaded
              THEN [cache |-> cache, disk |-> disk, threw |-> FALSE, wrote |-> FALSE]
              ELSE load(disk, now, w)
      r == filterLoop(init.cache, items, 1, <<>>, now)
  IN  /\ disk' = init.disk
      /\ saved' = Saved(init, init.cache.articles)
      /\ IF init.threw
         THEN /\ cache' = init.cache
              /\ loaded' = loaded
              /\ last' = Op("filterNew", items, <<>>, TRUE, init.cache)
         ELSE /\ cache' = r.cache
              /\ loaded' = TRUE
              /\ last' = Op("filterNew", items, IF r.threw THEN <<>> ELSE r.ret,
                            r.threw, init.cache)
      /\ UNCHANGED now

FilterNew ==
  \E items \in ItemLists, w \in IF loaded THEN {"ok"} ELSE WriteOutcomes :
    DoFilterNew(items, w) /\ UNCHANGED notStore

\* DeduplicationService.save() / CacheService.save()
DoSave(w) ==
  LET r == save(cache, disk, now, w)
  IN  /\ cache' = r.cache
      /\ disk' = r.disk
      /\ saved' = Saved(r, r.cache.articles)
      /\ last' = Op("save", <<>>, <<>>, r.threw, NullCache)
      /\ UNCHANGED <<loaded, now>>

Save == \E w \in WriteOutcomes : DoSave(w) /\ UNCHANGED notStore

\* DeduplicationService.cleanup() / CacheService.cleanup()
DoCleanup(w) ==
  LET r == cleanup(cache, disk, now, w)
  IN  /\ cache' = r.cache
      /\ disk' = r.disk
      /\ saved' = Saved(r, r.cache.articles)
      /\ last' = Op("cleanup", <<>>, <<>>, r.threw, cache)
      /\ UNCHANGED <<loaded, now>>

Cleanup == \E w \in WriteOutcomes : DoCleanup(w) /\ UNCHANGED notStore

\* time passes, between two processes (a run takes far less than a day)
Tick ==
  \E d \in {retentionDays + 1} :
    /\ cache.isNull
    /\ now + d <= MaxNow
    /\ now' = now + d
    /\ UNCHANGED <<disk, cache, loaded, last, saved, notStore>>

StoreNext == NewProcess \/ Load \/ FilterNew \/ Save \/ Cleanup \/ Tick

\* ------------------------------------------------------- the message packer
\* A string is a sequence of characters.  DISCORD_CONFIG.maxLength (2000)
\* is the packer's limit L; the model runs the packer with small limits, and
\* with headers, sections and footers in proportion, so that chunks fill up.
NL == "\n"
Whitespace == {NL, " "}
SectionChars == {"a", " ", NL}
Limits == {5, 6, 7}
Headers == { <<"H">>, <<"H", "H", "H", "H">>, <<"H", "H", "H", "H", "H">> }
Footers == { <<>>, <<"F">>, <<"F", "F", "F", "F">> }
\* sections: _buildSections yields at most one per source of its sourceOrder
\* (hackernews, qiita, zenn); the model packs up to two
SectionLists == SeqsUpTo(SeqsUpTo(SectionChars, MaxSecLen), 2)

\* String.prototype.slice(a, b) for 0 <= a, b
slice(str, a, b) == SubSeq(str, a + 1, IF b > Len(str) THEN Len(str) ELSE b)

\* String.prototype.lastIndexOf("\n") and ("\n\n"): 0-based, -1 when absent
lastIndexOfNL(text) ==
  LET hits == { i \in 0..(Len(text) - 1) : text[i + 1] = NL }
  IN  IF hits = {} THEN -1 ELSE CHOOSE i \in hits : \A j \in hits : j <= i

lastIndexOfNLNL(text) ==
  LET hits == { i \in 0..(Len(text) - 2) : text[i + 1] = NL /\ text[i + 2] = NL }
  IN  IF hits = {} THEN -1 ELSE CHOOSE i \in hits : \A j \in hits : j <= i

\* String.prototype.trim
trim(str) ==
  LET solid == { i \in 1..Len(str) : str[i] \notin Whitespace }
  IN  IF solid = {} THEN <<>>
      ELSE SubSeq(str, CHOOSE i \in solid : \A j \in solid : i <= j,
                       CHOOSE i \in solid : \A j \in solid : j <= i)

\* MessageFormatter._findSplitPoint
findSplitPoint(text) ==
  LET articleBoundary == lastIndexOfNLNL(text)
      newline == lastIndexOfNL(text)
  IN  IF articleBoundary * 10 > Len(text) * 7 THEN articleBoundary + 2
      ELSE IF newline * 10 > Len(text) * 8 THEN newline + 1
      ELSE (Len(text) * 9) \div 10

\* the chunk a fresh header opens
Fresh(header) == header \o <<NL, NL>>

\* pc: "sections" (the for loop stands before sections[idx]), "split" (the
\* while loop stands before an iteration), "done" (returned; result holds
\* the chunks)
PackerStart(header, sections, footer, L) ==
  [pc |-> "sections", header |-> header, sections |-> sections,
   footer |-> footer, L |-> L, idx |-> 1, cur |-> Fresh(header),
   chunks |-> <<>>, result |-> <<>>]

\* the store at rest, for the specifications that do not run it
StoreIdle ==
  /\ disk = AbsentFile
  /\ cache = NullCache
  /\ loaded = FALSE
  /\ now = 0
  /\ last = NoOp
  /\ saved = [valid |-> FALSE, articles |-> EmptyMap]

PackInit ==
  /\ StoreIdle
  /\ ids = [pc |-> "idle"]
  /\ slept = 0
  /\ retry = [state |-> "idle"]
  /\ sender = [pc |-> "idle"]
  /\ run = [pc |-> "idle"]
  /\ packer \in { PackerStart(h, ss, f, L) :
                    h \in Headers, ss \in SectionLists, f \in Footers, L \in Limits }

\* the chunks with currentChunk pushed when it holds more than the header
PushOpen(chunks, cur, header) ==
  IF Len(cur) > Len(header) + 2 THEN Append(chunks, cur) ELSE chunks

\* where the for loop goes once currentChunk is cur: into the while loop
\* when cur exceeds the limit, else to the next section
AfterPlace(p, chunks, cur) ==
  IF Len(cur) > p.L
  THEN [p EXCEPT !.pc = "split", !.chunks = chunks, !.cur = cur]
  ELSE [p EXCEPT !.pc = "sections", !.chunks = chunks, !.cur = cur, !.idx = p.idx + 1]

\* one iteration of the for loop of _splitIntoChunks, up to its while loop
PackSection ==
  /\ packer.pc = "sections"
  /\ packer.idx <= Len(packer.sections)
  /\ LET section == packer.sections[packer.idx]
         testChunk == packer.cur \o section \o <<NL, NL>>
     IN  packer' =
           IF Len(testChunk) > packer.L
           THEN AfterPlace(packer, PushOpen(packer.chunks, packer.cur, packer.header),
                           Fresh(packer.header) \o section \o <<NL, NL>>)
           ELSE [packer EXCEPT !.cur = testChunk, !.idx = packer.idx + 1]
  /\ UNCHANGED <<storeVars, notPacker>>

\* the iteration of the while loop as it would be if the remainder were
\* carried on without the header
PackSplitNoHeader ==
  /\ packer.pc = "split"
  /\ Len(packer.chunks) < MaxSplitChunks
  /\ LET splitPoint == findSplitPoint(slice(packer.cur, 0, packer.L))
         piece == slice(packer.cur, 0, splitPoint)
         rest == slice(packer.cur, splitPoint, Len(packer.cur))
     IN  packer' = AfterPlace(packer, Append(packer.chunks, piece),
                              trim(rest) \o <<NL, NL>>)
  /\ UNCHANGED <<storeVars, notPacker>>

\* one iteration of the while loop that splits an oversized chunk
PackSplit ==
  /\ packer.pc = "split"
  /\ Len(packer.chunks) < MaxSplitChunks
  /\ LET splitPoint == findSplitPoint(slice(packer.cur, 0, packer.L))
         piece == slice(packer.cur, 0, splitPoint)
         rest == slice(packer.cur, splitPoint, Len(packer.cur))
     IN  packer' = AfterPlace(packer, Append(packer.chunks, piece),
                              Fresh(packer.header) \o trim(rest) \o <<NL, NL>>)
  /\ UNCHANGED <<storeVars, notPacker>>

\* the end of _splitIntoChunks as it would be if the footer always went into
\* a chunk of its own
PackFooterSeparate ==
  /\ packer.pc = "sections"
  /\ packer.idx > Len(packer.sections)
  /\ LET chunks == Append(PushOpen(packer.chunks, packer.cur, packer.header),
                          Fresh(packer.header) \o packer.footer)
     IN  packer' = [packer EXCEPT !.pc = "done", !.chunks = chunks, !.result = chunks]
  /\ UNCHANGED <<storeVars, notPacker>>

\* the end of _splitIntoChunks as it would be without the fallback of its
\* return statement
PackFooterNoFallback ==
  /\ packer.pc = "sections"
  /\ packer.idx > Len(packer.sections)
  /\ LET testWithFooter == packer.cur \o packer.footer
         chunks ==
           IF Len(testWithFooter) > packer.L
           THEN Append(PushOpen(packer.chunks, packer.cur, packer.header),
                       Fresh(packer.header) \o packer.footer)
           ELSE PushOpen(packer.chunks, testWithFooter, packer.header)
     IN  packer' = [packer EXCEPT !.pc = "done", !.chunks = chunks, !.result = chunks]
  /\ UNCHANGED <<storeVars, notPacker>>

\* the footer and the return of _splitIntoChunks
PackFooter ==
  /\ packer.pc = "sections"
  /\ packer.idx > Len(packer.sections)
  /\ LET testWithFooter == packer.cur \o packer.footer
         chunks ==
           IF Len(testWithFooter) > packer.L
           THEN Append(PushOpen(packer.chunks, packer.cur, packer.header),
                       Fresh(packer.header) \o packer.footer)
           ELSE PushOpen(packer.chunks, testWithFooter, packer.header)
     IN  packer' = [packer EXCEPT
           !.pc = "done",
           !.chunks = chunks,
           !.result = IF Len(chunks) > 0 THEN chunks
                      ELSE << Fresh(packer.header) \o packer.footer >>]
  /\ UNCHANGED <<storeVars, notPacker>>

PackNext == PackSection \/ PackSplit \/ PackFooter

\* ------------------------------------------------------- the retry executor
\* RETRY_CONFIG of the constants module
RETRY_maxRetries == 3
RETRY_baseDelay == 1000
RETRY_maxDelay == 10000
RETRY_jitter == TRUE

\* the value for "not given" in a constructor's config object
Undefined == -1

\* RetryHandler.constructor: config.x ?? RETRY_CONFIG.x
RetryHandler(config) ==
  [maxRetries |-> IF config.maxRetries = Undefined THEN RETRY_maxRetries
                  ELSE config.maxRetries,
   baseDelay |-> IF config.baseDelay = Undefined THEN RETRY_baseDelay
                 ELSE config.baseDelay,
   maxDelay |-> IF config.maxDelay = Undefined THEN RETRY_maxDelay
                ELSE config.maxDelay,
   jitter |-> IF config.jitter = "undefined" THEN RETRY_jitter
              ELSE config.jitter = "true"]

\* the config objects the executor is constructed with
Configs ==
  [maxRetries : {Undefined} \cup 0..(RETRY_maxRetries - 1),
   baseDelay : {Undefined, 4000},
   maxDelay : {Undefined},
   jitter : {"undefined", "false"}]

\* Math.random(), in thousandths
Randoms == {0, 500, 999}

Min(a, b) == IF a < b THEN a ELSE b

\* _calculateDelay as it would be without the cap of maxDelay
calculateDelayUncapped(h, attempt, rnd) ==
  LET exponentialDelay == h.baseDelay * 2^attempt
  IN  IF h.jitter THEN (exponentialDelay * (500 + rnd)) \div 1000 ELSE exponentialDelay

\* RetryHandler._calculateDelay, rnd being what Math.random() returns
calculateDelay(h, attempt, rnd) ==
  LET exponentialDelay == h.baseDelay * 2^attempt
      delay == Min(exponentialDelay, h.maxDelay)
  IN  IF h.jitter THEN (delay * (500 + rnd)) \div 1000 ELSE delay

\* what one invocation of the wrapped operation does: it returns a value or
\* throws an error.  Values and errors are objects made by the invocation:
\* call tells which invocation made them.
FnOutcomes == {"ok", "estatus", "enet"}
Value(call) == [call |-> call, wraps |-> 0]
Error(call, kind) == [call |-> call, kind |-> kind, wraps |-> 0]
NoError == [call |-> 0, kind |-> "", wraps |-> 0]

\* execute(fn) entered: state "calling" stands before `await fn()`,
\* "sleeping" inside `await this._sleep(delay)`, "returned" and "thrown" are
\* the two ways execute ends.  delay is the local of the catch block (0
\* outside of it), sleeps counts the calls of _sleep
ExecStart(h, fn) ==
  [state |-> "calling", h |-> h, fn |-> fn, attempt |-> 0, calls |-> <<>>,
   delay |-> 0, sleeps |-> 0, lastError |-> NoError, result |-> Value(0),
   thrown |-> NoError]

\* the loop body as it would be if it gave up one attempt early
attemptFnShort(r, outcome, rnd) ==
  LET call == Len(r.calls) + 1
      calls == Append(r.calls, outcome)
  IN  IF outcome = "ok"
      THEN [r EXCEPT !.state = "returned", !.calls = calls, !.result = Value(call)]
      ELSE LET error == Error(call, outcome)
           IN  IF r.attempt + 1 >= r.h.maxRetries
               THEN [r EXCEPT !.state = "thrown", !.calls = calls,
                              !.lastError = error, !.thrown = error]
               ELSE [r EXCEPT !.state = "sleeping", !.calls = calls,
                              !.lastError = error,
                              !.delay = calculateDelay(r.h, r.attempt, rnd),
                              !.sleeps = r.sleeps + 1]

\* the loop body as it would be if it kept and threw the first error
attemptFnFirstError(r, outcome, rnd) ==
  LET call == Len(r.calls) + 1
      calls == Append(r.calls, outcome)
  IN  IF outcome = "ok"
      THEN [r EXCEPT !.state = "returned", !.calls = calls, !.result = Value(call)]
      ELSE LET error == Error(call, outcome)
               first == IF r.lastError = NoError THEN error ELSE r.lastError
           IN  IF r.attempt = r.h.maxRetries
               THEN [r EXCEPT !.state = "thrown", !.calls = calls,
                              !.lastError = first, !.thrown = first]
               ELSE [r EXCEPT !.state = "sleeping", !.calls = calls,
                              !.lastError = first,
                              !.delay = calculateDelay(r.h, r.attempt, rnd),
                              !.sleeps = r.sleeps + 1]

\* the body of the loop as it would be if an error status were final
attemptFnStatusFinal(r, outcome, rnd) ==
  LET call == Len(r.calls) + 1
      calls == Append(r.calls, outcome)
  IN  IF outcome = "ok"
      THEN [r EXCEPT !.state = "returned", !.calls = calls, !.result = Value(call)]
      ELSE LET error == Error(call, outcome)
           IN  IF r.attempt = r.h.maxRetries \/ outcome = "estatus"
               THEN [r EXCEPT !.state = "thrown", !.calls = calls,
                              !.lastError = error, !.thrown = error]
               ELSE [r EXCEPT !.state = "sleeping", !.calls = calls,
                              !.lastError = error,
                              !.delay = calculateDelay(r.h, r.attempt, rnd),
                              !.sleeps = r.sleeps + 1]

\* the body of the for loop of execute, from `await fn()` to the return, the
\* throw or the entry into _sleep; outcome is what this invocation of fn does
attemptFn(r, outcome, rnd) ==
  LET call == Len(r.calls) + 1
      calls == Append(r.calls, outcome)
  IN  IF outcome = "ok"
      THEN [r EXCEPT !.state = "returned", !.calls = calls, !.result = Value(call)]
      ELSE LET error == Error(call, outcome)
           IN  IF r.attempt = r.h.maxRetries
               THEN [r EXCEPT !.state = "thrown", !.calls = calls,
                              !.lastError = error, !.thrown = error]
               ELSE [r EXCEPT !.state = "sleeping", !.calls = calls,
                              !.lastError = error,
                              !.delay = calculateDelay(r.h, r.attempt, rnd),
                              !.sleeps = r.sleeps + 1]

\* _sleep resolves: attempt++, then the loop condition; `throw lastError`
\* follows the loop
wake(r) ==
  IF r.attempt + 1 <= r.h.maxRetries
  THEN [r EXCEPT !.state = "calling", !.attempt = r.attempt + 1, !.delay = 0]
  ELSE [r EXCEPT !.state = "thrown", !.attempt = r.attempt + 1, !.delay = 0,
                 !.thrown = r.lastError]

\* the values Math.random() can take where it is read
RandomsOf(h) == IF h.jitter THEN Randoms ELSE {0}

\* the wrapped operation: what it does at its 1st, 2nd, ... invocation; one
\* invocation more than execute can ever make
Behaviours(h) == [1..(h.maxRetries + 2) -> FnOutcomes]

RetryInit ==
  /\ StoreIdle
  /\ packer = [pc |-> "idle"]
  /\ ids = [pc |-> "idle"]
  /\ slept = 0
  /\ sender = [pc |-> "idle"]
  /\ run = [pc |-> "idle"]
  /\ retry \in { ExecStart(RetryHandler(config), fn) :
                   config \in Configs, fn \in UNION { Behaviours(RetryHandler(c)) : c \in Configs } }
  /\ DOMAIN retry.fn = 1..(retry.h.maxRetries + 2)

RetryCall ==
  /\ retry.state = "calling"
  /\ \E rnd \in RandomsOf(retry.h) :
       retry' = attemptFn(retry, retry.fn[Len(retry.calls) + 1], rnd)
  /\ UNCHANGED <<storeVars, notRetry, slept>>

RetryWake ==
  /\ retry.state = "sleeping"
  /\ retry' = wake(retry)
  /\ slept' = slept + retry.delay
  /\ UNCHANGED <<storeVars, notRetry>>

RetryNext == RetryCall \/ RetryWake

\* ---------------------------------------------------- the delivery sequencer
\* DISCORD_CONFIG of the constants module
DISCORD_maxRetries == 3
DISCORD_retryDelay == 1000

\* DiscordNotifier.constructor: the handler its sends are retried with
DiscordHandler ==
  RetryHandler([maxRetries |-> DISCORD_maxRetries, baseDelay |-> DISCORD_retryDelay,
                maxDelay |-> Undefined, jitter |-> "undefined"])

\* the webhook URL the notifier is constructed with: not set, or set
WebhookUrls == {"", "https://discord.com/api/webhooks/1/t"}

\* the URLs a notifier can be constructed with: those, a URL of another
\* host, a URL of another path, and a string that is no URL
ConfiguredUrls ==
  WebhookUrls \cup { "https://example.com/api/webhooks/1/t",
                     "https://discord.com/login", "discord" }

\* new URL(url): hostname and pathname (its segments), or a TypeError
ParseUrl(url) ==
  CASE url = "https://discord.com/api/webhooks/1/t" ->
         [ok |-> TRUE, hostname |-> "discord.com", pathname |-> <<"api", "webhooks", "1", "t">>]
    [] url = "https://example.com/api/webhooks/1/t" ->
         [ok |-> TRUE, hostname |-> "example.com", pathname |-> <<"api", "webhooks", "1", "t">>]
    [] url = "https://discord.com/login" ->
         [ok |-> TRUE, hostname |-> "discord.com", pathname |-> <<"login">>]
    [] OTHER -> [ok |-> FALSE, hostname |-> "", pathname |-> <<>>]

\* DiscordNotifier.isValidWebhookUrl; the pathname starts with
\* '/api/webhooks/' when its first two segments are these and a third follows
isValidWebhookUrl(url) ==
  IF url = "" THEN FALSE
  ELSE LET parsed == ParseUrl(url)
       IN  /\ parsed.ok
           /\ parsed.hostname = "discord.com"
           /\ Len(parsed.pathname) >= 3
           /\ SubSeq(parsed.pathname, 1, 2) = <<"api", "webhooks">>

\* the argument of send: an array of chunks, or one string
Contents == {"m1", "m2"}
SendInputs ==
  { [array |-> TRUE, items |-> items, text |-> ""] : items \in SeqsUpTo(Contents, MaxChunks) }
  \cup { [array |-> FALSE, items |-> <<>>, text |-> "m1"] }

\* if (!Array.isArray(messages)) messages = [messages]
asArray(input) == IF input.array THEN input.items ELSE <<input.text>>

\* what one axios.post does: a response with a status, or no response (a
\* network error, a timeout)
Statuses == {200, 204, 301, 429, 500}
TransportOutcomes ==
  { [kind |-> "response", status |-> st] : st \in Statuses }
  \cup { [kind |-> k, status |-> 0] : k \in {"network", "timeout"} }


\* the function _sendMessage hands to execute, for one outcome of the post
postFn(t) ==
  IF t.kind = "response"
  THEN IF t.status >= 200 /\ t.status < 300 THEN "ok" ELSE "estatus"
  ELSE "enet"

\* events of the notifier: a transport call for messages[index - 1], and a
\* _sleep of the sequencer between two messages
Post(index, content, t) ==
  [type |-> "post", index |-> index, content |-> content, outcome |-> postFn(t), ms |-> 0]
Wait(ms) ==
  [type |-> "wait", index |-> 0, content |-> "", outcome |-> "", ms |-> ms]

\* send(messages) entered, up to the first transport call.  pc: "sending"
\* (inside _sendMessage for messages[i]), "waiting" (inside _sleep(500)),
\* "returned", "thrown"
SendStart(webhookUrl, input) ==
  LET messages == asArray(input)
      s == [pc |-> "sending", webhookUrl |-> webhookUrl, messages |-> messages,
            i |-> 0, results |-> <<>>, trace |-> <<>>, thrown |-> NoError]
  IN  IF webhookUrl = "" THEN [s EXCEPT !.pc = "thrown", !.thrown = Error(0, "not_set")]
      ELSE IF Len(messages) = 0 THEN [s EXCEPT !.pc = "returned"]
      ELSE s

\* the loop of send as it would be if it also waited after the last chunk
afterAttemptWaitAlways(s, r) ==
  IF r.state = "returned"
  THEN LET results == Append(s.results, [success |-> TRUE, index |-> s.i + 1])
       IN  IF s.i <= Len(s.messages) - 1 /\ Len(s.messages) > 1
           THEN [s EXCEPT !.pc = "waiting", !.results = results,
                          !.trace = Append(@, Wait(500))]
           ELSE [s EXCEPT !.pc = "returned", !.results = results]
  ELSE IF r.state = "thrown"
  THEN [s EXCEPT !.pc = "thrown", !.thrown = r.thrown]
  ELSE s

\* the loop of send as it would be if it went on after a chunk that failed
afterAttemptSkip(s, r) ==
  IF r.state = "returned"
  THEN LET results == Append(s.results, [success |-> TRUE, index |-> s.i + 1])
       IN  IF s.i < Len(s.messages) - 1
           THEN [s EXCEPT !.pc = "waiting", !.results = results,
                          !.trace = Append(@, Wait(500))]
           ELSE [s EXCEPT !.pc = "returned", !.results = results]
  ELSE IF r.state = "thrown"
  THEN IF s.i < Len(s.messages) - 1
       THEN [s EXCEPT !.pc = "waiting"]
       ELSE [s EXCEPT !.pc = "thrown", !.thrown = r.thrown]
  ELSE s

\* the for loop of send after an attempt of the executor, r being the
\* executor after it: execute returned (the result is pushed, then _sleep(500)
\* or the return), execute threw (nothing catches it), or execute sleeps
afterAttempt(s, r) ==
  IF r.state = "returned"
  THEN LET results == Append(s.results, [success |-> TRUE, index |-> s.i + 1])
       IN  IF s.i < Len(s.messages) - 1
           THEN [s EXCEPT !.pc = "waiting", !.results = results,
                          !.trace = Append(@, Wait(500))]
           ELSE [s EXCEPT !.pc = "returned", !.results = results]
  ELSE IF r.state = "thrown"
  THEN [s EXCEPT !.pc = "thrown", !.thrown = r.thrown]
  ELSE s

SendInit ==
  /\ StoreIdle
  /\ packer = [pc |-> "idle"]
  /\ ids = [pc |-> "idle"]
  /\ slept = 0
  /\ run = [pc |-> "idle"]
  /\ sender \in { SendStart(url, input) : url \in ConfiguredUrls, input \in SendInputs }
  /\ retry = IF sender.pc = "sending" THEN ExecStart(DiscordHandler, <<>>)
             ELSE [state |-> "idle"]

\* one transport call, with what follows it up to the next suspension
SendPost ==
  /\ sender.pc = "sending"
  /\ retry.state = "calling"
  /\ \E t \in TransportOutcomes, rnd \in RandomsOf(retry.h) :
       LET r == attemptFn(retry, postFn(t), rnd)
           posted == [sender EXCEPT !.trace =
                        Append(@, Post(sender.i + 1, sender.messages[sender.i + 1], t))]
       IN  /\ retry' = r
           /\ sender' = afterAttempt(posted, r)
  /\ UNCHANGED <<storeVars, ids, slept, packer, run>>

\* the executor's _sleep resolves inside a send
SendRetryWake ==
  /\ sender.pc = "sending"
  /\ retry.state = "sleeping"
  /\ retry' = wake(retry)
  /\ UNCHANGED <<storeVars, ids, slept, packer, sender, run>>

\* the sequencer's _sleep(500) resolves: i++, the next _sendMessage
SendWaitDone ==
  /\ sender.pc = "waiting"
  /\ sender' = [sender EXCEPT !.pc = "sending", !.i = sender.i + 1]
  /\ retry' = ExecStart(DiscordHandler, <<>>)
  /\ UNCHANGED <<storeVars, ids, slept, packer, run>>

SendNext == SendPost \/ SendRetryWake \/ SendWaitDone

\* ------------------------------------------------------ the error notifier
DISCORD_maxLength == 2000
MaxMessageLen == 1990

Rep(n, ch) == [i \in 1..n |-> ch]

\* the literals of _formatErrorMessage, character for character in length:
\* the title line with its two line breaks (20), the label (5), the fence (3)
ErrorTitle == Rep(18, "T") \o <<NL, NL>>
ErrorLabel == Rep(5, "E")
Fence == Rep(3, "f")

\* the errors main can catch: a message, and a stack or none.  The stack is
\* given by its lines: the name and the message, then the frames
Frame == Rep(12, "s")
ErrorObjects ==
  { [message |-> Rep(n, "x"), hasStack |-> frames >= 0,
     stack |-> IF frames >= 0 THEN << Rep(7, "n") \o Rep(n, "x") >> \o Rep(frames, Frame)
               ELSE <<>>] :
      n \in {0, 20, MaxMessageLen}, frames \in {Undefined, 0, 1, 4} }

RECURSIVE join(_, _)
join(lines, sep) ==
  IF lines = <<>> THEN <<>>
  ELSE IF Len(lines) = 1 THEN lines[1]
  ELSE lines[1] \o sep \o join(Tail(lines), sep)

\* DiscordNotifier._formatErrorMessage
formatErrorMessage(error) ==
  LET message == ErrorTitle \o ErrorLabel \o error.message \o <<NL>>
  IN  IF error.hasStack
      THEN LET stack == join(SubSeq(error.stack, 1, Min(3, Len(error.stack))), <<NL>>)
           IN  message \o Fence \o <<NL>> \o stack \o <<NL>> \o Fence
      ELSE message

ErrorInit ==
  /\ StoreIdle
  /\ packer = [pc |-> "idle"]
  /\ ids = [pc |-> "idle"]
  /\ slept = 0
  /\ run = [pc |-> "idle"]
  /\ retry = [state |-> "idle"]
  /\ sender \in { [pc |-> "sendError", webhookUrl |-> url, error |-> e] :
                   url \in WebhookUrls, e \in ErrorObjects }

\* DiscordNotifier.sendError up to the first transport call
SendErrorCall ==
  /\ sender.pc = "sendError"
  /\ LET message == formatErrorMessage(sender.error)
         s == SendStart(sender.webhookUrl, [array |-> FALSE, items |-> <<>>, text |-> message])
     IN  /\ sender' = s
         /\ retry' = IF s.pc = "sending" THEN ExecStart(DiscordHandler, <<>>)
                     ELSE [state |-> "idle"]
  /\ UNCHANGED <<storeVars, ids, slept, packer, run>>

ErrorNext == SendErrorCall \/ SendPost \/ SendRetryWake

\* ------------------------------------------------------------------ the run
\* Object.keys(articlesBySource), the order main walks the sources in
SourceOrder == <<"hackernews", "qiita", "zenn">>

\* what a fetcher hands to main for source s: BaseFetcher.fetchAll keeps one
\* article per fingerprint and only articles of the last 24 hours or without
\* a date
FetchedLists(s) ==
  { <<>> } \cup { <<Article(s, url, hasDate, 0)>> : url \in Urls, hasDate \in BOOLEAN }

\* one entry of fetchResults: rejected, or fulfilled with the articles
FetchResults(s) ==
  { [fulfilled |-> FALSE, articles |-> <<>>] }
  \cup { [fulfilled |-> TRUE, articles |-> l] : l \in FetchedLists(s) }

\* sourcesConfig.maxArticlesPerSection
MaxPerSection == {1}

\* a file of the expected version holding an entry older than the retention
\* window
OldFile ==
  ObjectFile(CACHE_VERSION, 0, TRUE, SourceKeys,
             { <<"zenn", <<"zenn", "https://example.com/old">>, 0 - (retentionDays + 1)>> })

\* files the first run may find: none, one of the expected version without
\* its articles map, one with an old entry; a later run also finds what the
\* run before it left
RunFiles == {AbsentFile, ObjectFile(CACHE_VERSION, 0, FALSE, {}, {}), OldFile}

NoArticles == [s \in SourceKeys |-> <<>>]

\* what formatter.format returns: one chunk or more
Formatted == { [i \in 1..n |-> "m1"] : n \in 1..MaxChunks }

\* main() entered.  pc: "fetch" (inside Promise.allSettled), "filter"
\* (before a filterNew or the save of line 231), "cleanup", "send" (inside
\* notifier.send), "notify" (inside notifier.sendError), "exited"
\* sentBefore: the fingerprints of the articles that earlier runs handed to
\* notifier.send.  cut: the fingerprints of the articles filterNew returned
\* in this run and the slice of line 226 dropped.  cutOnFile: those dropped by
\* earlier runs that the backing file holds when this run starts.  listedDry:
\* the fingerprints of the articles the run before this one printed at its
\* dry-run branch
RunStart(n, dryRun, webhookUrl, maxPer) ==
  [pc |-> "fetch", n |-> n, dryRun |-> dryRun, webhookUrl |-> webhookUrl,
   maxArticlesPerSection |-> maxPer, articlesBySource |-> NoArticles,
   errors |-> {}, idx |-> 1, newArticlesBySource |-> NoArticles,
   persistFailed |-> FALSE, error |-> "", code |-> -1, sentBefore |-> {},
   cut |-> {}, cutOnFile |-> {}, listedDry |-> {}]

\* the catch block of main as it would be if it attempted the notification
\* in dry-run too
catchBlockDryNotify(r, error) ==
  IF r.webhookUrl # ""
  THEN [r EXCEPT !.pc = "notify", !.error = error]
  ELSE [r EXCEPT !.pc = "exited", !.error = error, !.code = 1]

\* the catch block of main as it would be without the error notification
catchBlockSilent(r, error) ==
  [r EXCEPT !.pc = "exited", !.error = error, !.code = 1]

\* the catch block of main up to its first suspension: the notification is
\* attempted with an endpoint and outside dry-run, then process.exit(1)
catchBlock(r, error) ==
  IF r.webhookUrl # "" /\ ~r.dryRun
  THEN [r EXCEPT !.pc = "notify", !.error = error]
  ELSE [r EXCEPT !.pc = "exited", !.error = error, !.code = 1]

\* the notifier main constructs when it enters send or sendError: sendError
\* sends one string, send the array the formatter returned
Notifier(r2, messages) ==
  IF r2.pc = "notify"
  THEN /\ sender' = SendStart(r2.webhookUrl, [array |-> FALSE, items |-> <<>>, text |-> "m1"])
       /\ retry' = ExecStart(DiscordHandler, <<>>)
  ELSE IF r2.pc = "send"
  THEN /\ sender' = SendStart(r2.webhookUrl, [array |-> TRUE, items |-> messages, text |-> ""])
       /\ retry' = ExecStart(DiscordHandler, <<>>)
  ELSE UNCHANGED <<sender, retry>>

\* the first source at or after position i that has articles, 4 if none
NextSource(r, i) ==
  LET with == { j \in i..3 : Len(r.articlesBySource[SourceOrder[j]]) > 0 }
  IN  IF with = {} THEN 4 ELSE CHOOSE j \in with : \A k \in with : j <= k

\* whether the call about to be made attempts a write that fails
loadWriteFails(w) == ~loaded /\ disk.kind # "object" /\ w # "ok"
saveWriteFails(w) == ~cache.isNull /\ w # "ok"
cleanupWriteFails(w) ==
  /\ ~cache.isNull
  /\ cache.hasArticles
  /\ \E src \in DOMAIN cache.articles : \E h \in DOMAIN cache.articles[src] :
       cache.articles[src][h] < now - retentionDays
  /\ w # "ok"

RunInit ==
  /\ packer = [pc |-> "idle"]
  /\ ids = [pc |-> "idle"]
  /\ slept = 0
  /\ retry = [state |-> "idle"]
  /\ sender = [pc |-> "idle"]
  /\ disk \in RunFiles
  /\ cache = NullCache
  /\ loaded = FALSE
  /\ now = 0
  /\ last = NoOp
  /\ saved = [valid |-> FALSE, articles |-> EmptyMap]
  /\ run \in { RunStart(1, dry, url, m) :
                 dry \in BOOLEAN, url \in WebhookUrls, m \in MaxPerSection }

\* the fetch as it would be with Promise.all: one rejected source rejects
\* the whole and main's catch block runs
RunFetchAll ==
  /\ run.pc = "fetch"
  /\ \E res \in [SourceKeys -> UNION { FetchResults(s) : s \in SourceKeys }] :
       /\ \A s \in SourceKeys : res[s] \in FetchResults(s)
       /\ LET errors == { s \in SourceKeys : ~res[s].fulfilled }
              r1 == [run EXCEPT
                       !.articlesBySource = [s \in SourceKeys |-> res[s].articles],
                       !.errors = errors]
              r2 == IF errors # {} THEN catchBlock(r1, "fetch")
                    ELSE [r1 EXCEPT !.pc = "filter"]
          IN  run' = r2 /\ Notifier(r2, <<>>)
  /\ UNCHANGED <<storeVars, ids, slept, packer>>

\* Promise.allSettled settles; main collects the results
RunFetch ==
  /\ run.pc = "fetch"
  /\ \E res \in [SourceKeys -> UNION { FetchResults(s) : s \in SourceKeys }] :
       /\ \A s \in SourceKeys : res[s] \in FetchResults(s)
       /\ run' = [run EXCEPT
            !.pc = "filter",
            !.articlesBySource = [s \in SourceKeys |-> res[s].articles],
            !.errors = { s \in SourceKeys : ~res[s].fulfilled }]
  /\ UNCHANGED <<storeVars, ids, slept, packer, retry, sender>>

\* the loop of lines 222-228 as it would be if the limit were applied to
\* the fetched articles, before filterNew
RunFilterLimitFirst ==
  /\ run.pc = "filter"
  /\ NextSource(run, run.idx) <= 3
  /\ LET j == NextSource(run, run.idx)
         s == SourceOrder[j]
         articles == run.articlesBySource[s]
     IN  \E w \in IF loaded THEN {"ok"} ELSE WriteOutcomes :
           /\ DoFilterNew(SubSeq(articles, 1, Min(Len(articles), run.maxArticlesPerSection)), w)
           /\ LET failed == run.persistFailed \/ loadWriteFails(w)
                  r1 == [run EXCEPT !.persistFailed = failed]
                  r2 == IF last'.threw THEN catchBlock(r1, "filterNew")
                        ELSE [r1 EXCEPT !.idx = j + 1,
                                        !.newArticlesBySource[s] = last'.ret]
              IN  run' = r2 /\ Notifier(r2, <<>>)
  /\ UNCHANGED <<packer, ids, slept>>

\* the next filterNew of the loop of lines 222-228
RunFilter ==
  /\ run.pc = "filter"
  /\ NextSource(run, run.idx) <= 3
  /\ LET j == NextSource(run, run.idx)
         s == SourceOrder[j]
     IN  \E w \in IF loaded THEN {"ok"} ELSE WriteOutcomes :
           /\ DoFilterNew(run.articlesBySource[s], w)
           /\ LET failed == run.persistFailed \/ loadWriteFails(w)
                  r1 == [run EXCEPT !.persistFailed = failed]
                  kept == Min(Len(last'.ret), run.maxArticlesPerSection)
                  r2 == IF last'.threw THEN catchBlock(r1, "filterNew")
                        ELSE [r1 EXCEPT
                               !.idx = j + 1,
                               !.newArticlesBySource[s] = SubSeq(last'.ret, 1, kept),
                               !.cut = @ \cup { getHash(last'.ret[i]) :
                                                  i \in (kept + 1)..Len(last'.ret) }]
              IN  run' = r2 /\ Notifier(r2, <<>>)
  /\ UNCHANGED <<packer, ids, slept>>

\* line 231 as it would be if a dry run left the backing file alone
RunSaveNotDry ==
  /\ run.pc = "filter"
  /\ NextSource(run, run.idx) > 3
  /\ IF run.dryRun
     THEN /\ run' = [run EXCEPT !.pc = "cleanup"]
          /\ UNCHANGED <<storeVars, retry, sender>>
     ELSE \E w \in WriteOutcomes :
            /\ DoSave(w)
            /\ LET r1 == [run EXCEPT !.persistFailed = @ \/ saveWriteFails(w)]
                   r2 == IF last'.threw THEN catchBlock(r1, "save")
                         ELSE [r1 EXCEPT !.pc = "cleanup"]
               IN  run' = r2 /\ Notifier(r2, <<>>)
  /\ UNCHANGED <<packer, ids, slept>>

\* dedupeService.save() of line 231; the summaries of lines 234-244 follow
\* and change nothing of the state
RunSave ==
  /\ run.pc = "filter"
  /\ NextSource(run, run.idx) > 3
  /\ \E w \in WriteOutcomes :
       /\ DoSave(w)
       /\ LET r1 == [run EXCEPT !.persistFailed = @ \/ saveWriteFails(w)]
              r2 == IF last'.threw THEN catchBlock(r1, "save")
                    ELSE [r1 EXCEPT !.pc = "cleanup"]
          IN  run' = r2 /\ Notifier(r2, <<>>)
  /\ UNCHANGED <<packer, ids, slept>>

\* dedupeService.cleanup() of line 247 and main up to its next suspension:
\* the two early returns, the format, the endpoint test, the send.  The
\* formatter returns one chunk or more
RunCleanup ==
  /\ run.pc = "cleanup"
  /\ \E w \in WriteOutcomes, messages \in Formatted :
       /\ DoCleanup(w)
       /\ LET r1 == [run EXCEPT !.persistFailed = @ \/ cleanupWriteFails(w)]
              totalNew == Len(r1.newArticlesBySource["hackernews"])
                          + Len(r1.newArticlesBySource["qiita"])
                          + Len(r1.newArticlesBySource["zenn"])
              r2 == IF last'.threw THEN catchBlock(r1, "cleanup")
                    ELSE IF totalNew = 0 \/ r1.dryRun
                    THEN [r1 EXCEPT !.pc = "exited", !.code = 0]
                    ELSE IF r1.webhookUrl = "" THEN catchBlock(r1, "not_set")
                    ELSE [r1 EXCEPT !.pc = "send"]
          IN  run' = r2 /\ Notifier(r2, messages)
  /\ UNCHANGED <<packer, ids, slept>>

\* notifier.send has ended: main returns, or its catch block runs
RunSendEnd ==
  /\ run.pc = "send"
  /\ sender.pc \in {"returned", "thrown"}
  /\ LET r2 == IF sender.pc = "thrown" THEN catchBlock(run, "send")
               ELSE [run EXCEPT !.pc = "exited", !.code = 0]
     IN  run' = r2 /\ Notifier(r2, <<>>)
  /\ UNCHANGED <<storeVars, ids, slept, packer>>

\* the end of the catch block as it would be if nothing caught what
\* sendError throws: the notification's failure ends the run in place of the
\* error main had caught
RunNotifyEndMasked ==
  /\ run.pc = "notify"
  /\ sender.pc \in {"returned", "thrown"}
  /\ run' = IF sender.pc = "thrown"
            THEN [run EXCEPT !.pc = "exited", !.code = 1, !.error = "notify"]
            ELSE [run EXCEPT !.pc = "exited", !.code = 1]
  /\ UNCHANGED <<storeVars, ids, slept, packer, retry, sender>>

\* notifier.sendError has ended, either way: process.exit(1)
RunNotifyEnd ==
  /\ run.pc = "notify"
  /\ sender.pc \in {"returned", "thrown"}
  /\ run' = [run EXCEPT !.pc = "exited", !.code = 1]
  /\ UNCHANGED <<storeVars, ids, slept, packer, retry, sender>>

\* the fingerprints of the articles run r handed to notifier.send: those of
\* newArticlesBySource if r came to line 278, none otherwise
HandedToSend(r) ==
  IF r.error = "send" \/ (r.code = 0 /\ ~r.dryRun /\ sender.pc = "returned")
  THEN UNION { { getHash(r.newArticlesBySource[s][i]) :
                   i \in 1..Len(r.newArticlesBySource[s]) } : s \in SourceKeys }
  ELSE {}

\* the fingerprints run r or a run before it cut from the digest and the
\* backing file holds now
CutOnFile(r) ==
  { h \in r.cutOnFile \cup r.cut :
      disk.kind = "object" /\ \E e \in disk.entries : e[2] = h }

\* the fingerprints of the articles run r printed at its dry-run branch
\* (lines 260-266): those of newArticlesBySource if r came there, none
\* otherwise
ListedDry(r) ==
  IF r.dryRun /\ r.code = 0
  THEN UNION { { getHash(r.newArticlesBySource[s][i]) :
                   i \in 1..Len(r.newArticlesBySource[s]) } : s \in SourceKeys }
  ELSE {}

\* the next run, started by hand with --dry-run or without: a new process,
\* the file stays
RunAgain ==
  /\ run.pc = "exited"
  /\ run.n < MaxRuns
  /\ \E dry \in BOOLEAN :
       run' = [RunStart(run.n + 1, dry, run.webhookUrl, run.maxArticlesPerSection)
                 EXCEPT !.sentBefore = run.sentBefore \cup HandedToSend(run),
                        !.cutOnFile = CutOnFile(run),
                        !.listedDry = ListedDry(run)]
  /\ cache' = NullCache
  /\ loaded' = FALSE
  /\ last' = Op("start", <<>>, <<>>, FALSE, NullCache)
  /\ retry' = [state |-> "idle"]
  /\ sender' = [pc |-> "idle"]
  /\ UNCHANGED <<disk, now, saved, packer, ids, slept>>

RunNext ==
  \/ RunFetch \/ RunFilter \/ RunSave \/ RunCleanup
  \/ SendPost \/ SendRetryWake \/ SendWaitDone
  \/ RunSendEnd \/ RunNotifyEnd \/ RunAgain

\* feeds that list more than maxArticlesPerSection new articles: the first
\* source returns up to two articles, the second up to one, the third none;
\* none of them carries a date
MoreUrls == Urls \cup {"https://example.com/b"}

LongLists(s) ==
  IF s = SourceOrder[1]
  THEN { <<>> }
       \cup { <<Article(s, u, FALSE, 0)>> : u \in MoreUrls }
       \cup { <<Article(s, p[1], FALSE, 0), Article(s, p[2], FALSE, 0)>> :
                p \in { q \in MoreUrls \X MoreUrls : q[1] # q[2] } }
  ELSE IF s = SourceOrder[2]
  THEN { <<>> } \cup { <<Article(s, u, FALSE, 0)>> : u \in Urls }
  ELSE { <<>> }

LongResults(s) ==
  { [fulfilled |-> FALSE, articles |-> <<>>] }
  \cup { [fulfilled |-> TRUE, articles |-> l] : l \in LongLists(s) }

\* runs over such feeds: the endpoint configured, at first no backing file
LimitInit ==
  /\ packer = [pc |-> "idle"]
  /\ ids = [pc |-> "idle"]
  /\ slept = 0
  /\ retry = [state |-> "idle"]
  /\ sender = [pc |-> "idle"]
  /\ disk = AbsentFile
  /\ cache = NullCache
  /\ loaded = FALSE
  /\ now = 0
  /\ last = NoOp
  /\ saved = [valid |-> FALSE, articles |-> EmptyMap]
  /\ run \in { RunStart(1, dry, url, m) :
                 dry \in BOOLEAN, url \in WebhookUrls \ {""}, m \in MaxPerSection }

\* Promise.allSettled settles over such feeds; main collects the results
RunFetchLong ==
  /\ run.pc = "fetch"
  /\ \E res \in [SourceKeys -> UNION { LongResults(s) : s \in SourceKeys }] :
       /\ \A s \in SourceKeys : res[s] \in LongResults(s)
       /\ run' = [run EXCEPT
            !.pc = "filter",
            !.articlesBySource = [s \in SourceKeys |-> res[s].articles],
            !.errors = { s \in SourceKeys : ~res[s].fulfilled }]
  /\ UNCHANGED <<storeVars, ids, slept, packer, retry, sender>>

LimitNext ==
  \/ RunFetchLong \/ RunFilter \/ RunSave \/ RunCleanup
  \/ SendPost \/ SendRetryWake \/ SendWaitDone
  \/ RunSendEnd \/ RunNotifyEnd \/ RunAgain

\* the runs the workflow schedules, day after day: never dry, the endpoint
\* configured, and at the first of them no backing file
ScheduledInit ==
  /\ packer = [pc |-> "idle"]
  /\ ids = [pc |-> "idle"]
  /\ slept = 0
  /\ retry = [state |-> "idle"]
  /\ sender = [pc |-> "idle"]
  /\ disk = AbsentFile
  /\ cache = NullCache
  /\ loaded = FALSE
  /\ now = 0
  /\ last = NoOp
  /\ saved = [valid |-> FALSE, articles |-> EmptyMap]
  /\ run \in { RunStart(1, FALSE, url, m) :
                 url \in WebhookUrls \ {""}, m \in MaxPerSection }

\* the next scheduled run: a new process, the file stays
RunScheduled ==
  /\ run.pc = "exited"
  /\ run.n < MaxScheduled
  /\ run' = [RunStart(run.n + 1, FALSE, run.webhookUrl, run.maxArticlesPerSection)
               EXCEPT !.sentBefore = run.sentBefore \cup HandedToSend(run),
                      !.cutOnFile = CutOnFile(run)]
  /\ cache' = NullCache
  /\ loaded' = FALSE
  /\ last' = Op("start", <<>>, <<>>, FALSE, NullCache)
  /\ retry' = [state |-> "idle"]
  /\ sender' = [pc |-> "idle"]
  /\ UNCHANGED <<disk, now, saved, packer, ids, slept>>

ScheduledNext ==
  \/ RunFetch \/ RunFilter \/ RunSave \/ RunCleanup
  \/ SendPost \/ SendRetryWake \/ SendWaitDone
  \/ RunSendEnd \/ RunNotifyEnd \/ RunScheduled

\* ------------------------------------------------------------ end of model

\* ---------------------------------------------------------- specifications
\* the store's operations, called in any order
\* -------------------------------------------------------- article identity
\* A URL as it is written: with whitespace around it or without (pad); with
\* a scheme and host, in lower or in upper case, or without them, which
\* new URL() rejects (valid, upper); the path's segments; whether a slash ends
\* the path; whether a "?" follows and, after it, the names of the parameters,
\* each written name=x.
MaxPathLen == 1
MaxParams == 2
ParamNames == {"utm_source", "id"}
utmParams == {"utm_source", "utm_medium", "utm_campaign", "utm_term", "utm_content"}

RawUrls ==
  { u \in [pad : BOOLEAN, valid : BOOLEAN, upper : BOOLEAN,
            path : SeqsUpTo({"p"}, MaxPathLen), slash : BOOLEAN,
            hasQuery : BOOLEAN, params : SeqsUpTo(ParamNames, MaxParams)] :
      /\ u.upper => u.valid
      /\ u.params # <<>> => u.hasQuery }

notUtm(name) == name \notin utmParams

\* Article._normalizeUrl: trim; drop one "/" when the string ends with it,
\* which it does when the path ends with it and nothing follows the path;
\* then, when new URL() accepts the string, delete the utm parameters and
\* serialize: scheme and host in lower case, "/" for an empty path, and the
\* query as URLSearchParams rewrites it, without "?" when no parameter is left.
\* A string new URL() rejects is returned as it stands.
normalizeUrl(url) ==
  LET trimmed == [url EXCEPT !.pad = FALSE]
      normalized == IF ~trimmed.hasQuery /\ trimmed.slash
                    THEN [trimmed EXCEPT !.slash = FALSE]
                    ELSE trimmed
  IN  IF ~normalized.valid THEN normalized
      ELSE LET kept == SelectSeq(normalized.params, notUtm)
           IN  [normalized EXCEPT !.upper = FALSE,
                                  !.slash = (normalized.path = <<>>) \/ normalized.slash,
                                  !.params = kept,
                                  !.hasQuery = kept # <<>>]

\* new Article({url, source}): this.url, then this.id from source and this.url
construct(source, url) ==
  LET article == Article(source, normalizeUrl(url), FALSE, 0)
  IN  [url |-> article.url, id |-> getHash(article)]

UrlInit ==
  /\ StoreIdle
  /\ packer = [pc |-> "idle"]
  /\ retry = [state |-> "idle"]
  /\ sender = [pc |-> "idle"]
  /\ run = [pc |-> "idle"]
  /\ slept = 0
  /\ ids \in { [pc |-> "given", source |-> s, a |-> a, b |-> b] :
                s \in ItemSources, a \in RawUrls, b \in RawUrls }

Construct ==
  /\ ids.pc = "given"
  /\ ids' = [pc |-> "made", source |-> ids.source, a |-> ids.a, b |-> ids.b,
              idA |-> construct(ids.source, ids.a).id,
              idB |-> construct(ids.source, ids.b).id]
  /\ UNCHANGED <<storeVars, packer, retry, sender, run, slept>>

UrlNext == Construct

\* ------------------------------------------- the store around the cutoff
\* Files left by earlier runs, read at day MaxNow: each partition holds no
\* entry or one entry recorded one day before the cutoff, at the cutoff or one
\* day after it.
Stamps == { MaxNow - retentionDays - 1, MaxNow - retentionDays, MaxNow - retentionDays + 1 }

AgedFiles ==
  UNION { { ObjectFile(CACHE_VERSION, 0, TRUE, SourceKeys,
                       { <<s, <<s, "https://example.com/a">>, st[s]>> : s \in P })
            : st \in [P -> Stamps] }
          : P \in SUBSET SourceKeys }

CleanupInit ==
  /\ packer = [pc |-> "idle"]
  /\ ids = [pc |-> "idle"]
  /\ slept = 0
  /\ retry = [state |-> "idle"]
  /\ sender = [pc |-> "idle"]
  /\ run = [pc |-> "idle"]
  /\ disk \in AgedFiles
  /\ cache = NullCache
  /\ loaded = FALSE
  /\ now = MaxNow
  /\ last = NoOp
  /\ saved = [valid |-> FALSE, articles |-> EmptyMap]

CleanupNext == Load \/ Cleanup \/ Save

Spec == StoreInit /\ [][StoreNext]_vars

\* the packer, run on every input within the bounds
PackSpec == PackInit /\ [][PackNext]_vars

\* the retry executor, run on every configuration and wrapped operation
\* within the bounds
RetrySpec == RetryInit /\ [][RetryNext]_vars

\* the delivery sequencer, run on every argument within the bounds
SendSpec == SendInit /\ [][SendNext]_vars

\* runs of main, one after another over the same file
CleanupSpec == CleanupInit /\ [][CleanupNext]_vars

UrlSpec == UrlInit /\ [][UrlNext]_vars

ErrorSpec == ErrorInit /\ [][ErrorNext]_vars

LimitSpec == LimitInit /\ [][LimitNext]_vars

ScheduledSpec == ScheduledInit /\ [][ScheduledNext]_vars

RunSpec == RunInit /\ [][RunNext]_vars

\* ===================================================================== C1
\* the items at the indices K, in their order
RECURSIVE PickIdx(_, _, _)
PickIdx(items, K, i) ==
  IF i > Len(items) THEN <<>>
  ELSE (IF i \in K THEN <<items[i]>> ELSE <<>>) \o PickIdx(items, K, i + 1)

\* the indices of the items that are in no partition of c when they are
\* examined: not in c, and not recorded earlier in the same call
FirstUnseen(c, items) ==
  { i \in 1..Len(items) :
      /\ ~InStore(c, getHash(items[i]))
      /\ \A j \in 1..(i - 1) : getHash(items[j]) # getHash(items[i]) }

\* C1: on a loaded store that has its partitions map, filterNew returns
\* exactly the items whose fingerprint is in no partition when the item is
\* examined, in their original order; every returned item's fingerprint is
\* then recorded in the partition of the item's source; nothing else in the
\* store changes.
C1_FilterNewContract ==
  (last.name = "filterNew" /\ ~last.threw /\ last.pre.hasArticles) =>
    LET K == FirstUnseen(last.pre, last.items)
        newH == { getHash(last.items[i]) : i \in K }
        before == last.pre.articles
        after == cache.articles
    IN  /\ last.ret = PickIdx(last.items, K, 1)
        /\ \A i \in K :
             /\ last.items[i].source \in DOMAIN after
             /\ getHash(last.items[i]) \in DOMAIN after[last.items[i].source]
        /\ \A s \in DOMAIN after : \A h \in DOMAIN after[s] :
             h \notin newH =>
               /\ s \in DOMAIN before
               /\ h \in DOMAIN before[s]
               /\ after[s][h] = before[s][h]
        /\ \A s \in DOMAIN before :
             /\ s \in DOMAIN after
             /\ \A h \in DOMAIN before[s] :
                  h \in DOMAIN after[s] /\ after[s][h] = before[s][h]
        /\ (K = {} => cache = last.pre)

\* a call that returned one of two items and skipped the other as seen
C1_Witness ==
  /\ last.name = "filterNew"
  /\ ~last.threw
  /\ Len(last.items) = 2
  /\ Len(last.ret) = 1
  /\ \E i \in 1..2 : InStore(last.pre, getHash(last.items[i]))
  /\ InStore(cache, getHash(last.ret[1]))

\* ===================================================================== C2
DistinctHashes(items) ==
  \A i, j \in 1..Len(items) : i # j => getHash(items[i]) # getHash(items[j])

\* C2 as stated, read in its favour (the store holds none of the list's
\* items before the first call): of two filterNew calls in sequence on the
\* same list, the first returns the full list and the second the empty list.
C2_Original ==
  (last.name = "filterNew" /\ ~last.threw /\ last.repeat /\ last.prevFresh) =>
    (last.prevFull /\ last.ret = <<>>)

\* C2, amended: of two filterNew calls in sequence on the same list, the
\* second returns the empty list; the first returns the full list when the
\* list's fingerprints are pairwise distinct and none is in the store.
C2_Idempotent ==
  (last.name = "filterNew" /\ ~last.threw /\ last.repeat) =>
    /\ last.ret = <<>>
    /\ (last.prevFresh /\ DistinctHashes(last.items)) => last.prevFull

\* the second of two calls on a list of two unseen, different items
C2_Witness ==
  /\ last.name = "filterNew"
  /\ ~last.threw
  /\ last.repeat
  /\ last.prevFresh
  /\ last.prevFull
  /\ Len(last.items) = 2
  /\ last.ret = <<>>

\* ===================================================================== C3
\* C3: a load() that follows a successful save() of a store of the expected
\* version leaves in memory exactly the partitions and entries that were in
\* memory at that save.
C3_RoundTrip ==
  (last.name = "load" /\ ~last.threw /\ saved.valid) =>
    cache.articles = saved.articles

\* a load in a new process that restored a recorded entry from the file
C3_Witness ==
  /\ last.name = "load"
  /\ ~last.threw
  /\ saved.valid
  /\ disk.kind = "object"
  /\ disk.version = CACHE_VERSION
  /\ \E s \in DOMAIN cache.articles : DOMAIN cache.articles[s] # {}

\* ===================================================================== C4
\* C4: every chunk the packer returns has length <= L, the separate final
\* chunk of header and footer included.
C4_Ceiling ==
  packer.pc = "done" =>
    \A i \in 1..Len(packer.result) : Len(packer.result[i]) <= packer.L

\* ===================================================================== C5
RECURSIVE Flatten(_)
Flatten(strs) == IF strs = <<>> THEN <<>> ELSE Head(strs) \o Flatten(Tail(strs))

\* what is left of the chunks once the header that opens each chunk and the
\* footer that closes the last one are removed, in chunk order
Remains(p) ==
  LET n == Len(p.result)
      body(i) ==
        SubSeq(p.result[i], Len(Fresh(p.header)) + 1,
               Len(p.result[i]) - (IF i = n THEN Len(p.footer) ELSE 0))
  IN  Flatten([i \in 1..n |-> body(i)])

\* the characters of a string that are not line breaks
NoBreaks(str) == SelectSeq(str, LAMBDA ch : ch # NL)

\* C5: with the repeated header and the footer removed, the returned chunks
\* concatenate to the original sections in their order, no character
\* omitted and none duplicated, also when a section was hard-split.
\* Line breaks are left out of the comparison, so that the blank lines the
\* packer puts between sections cannot account for a difference.
C5_Complete ==
  packer.pc = "done" =>
    NoBreaks(Remains(packer)) = NoBreaks(Flatten(packer.sections))

\* ===================================================================== C6
\* k: how many times the wrapped operation fails before its first success
LeadingFailures(fn) ==
  LET oks == { i \in DOMAIN fn : fn[i] = "ok" }
  IN  IF oks = {} THEN Cardinality(DOMAIN fn)
      ELSE (CHOOSE i \in oks : \A j \in oks : i <= j) - 1

Ended(r) == r.state \in {"returned", "thrown"}

\* C6: one call of execute invokes the wrapped operation exactly
\* min(k + 1, maxRetries + 1) times, k being the number of failures before
\* its first success; when the success comes within maxRetries + 1
\* attempts execute returns that success result and invokes nothing more;
\* the operation is never invoked more than maxRetries + 1 times.
C6_Attempts ==
  retry.state # "idle" =>
    LET k == LeadingFailures(retry.fn)
        n == retry.h.maxRetries + 1
    IN  /\ Len(retry.calls) <= Min(k + 1, n)
        /\ Ended(retry) => Len(retry.calls) = Min(k + 1, n)
        /\ (Ended(retry) /\ k + 1 <= n) =>
             retry.state = "returned" /\ retry.result = Value(k + 1)
        /\ retry.state = "returned" => k + 1 <= n

\* fails twice, then succeeds on the third attempt under maxRetries = 3
C6_Witness ==
  /\ retry.state = "returned"
  /\ retry.h.maxRetries = 3
  /\ retry.calls = <<"estatus", "estatus", "ok">>
  /\ retry.result = Value(3)

\* ===================================================================== C7
\* C7: when all maxRetries + 1 attempts fail, execute throws the error of
\* the last attempt itself (not a wrapper, not an earlier attempt's error,
\* and it does throw), and it does not sleep after that last failure.
C7_LastFailure ==
  retry.state # "idle" =>
    LET n == retry.h.maxRetries + 1
    IN  /\ retry.state = "thrown" =>
             /\ Len(retry.calls) = n
             /\ retry.thrown = Error(n, retry.fn[n])
             /\ retry.sleeps = n - 1
        /\ retry.state = "sleeping" => Len(retry.calls) < n
        /\ (Ended(retry) /\ \A i \in 1..n : retry.fn[i] # "ok") =>
             retry.state = "thrown"

\* exhaustion after failures of different kinds
C7_Witness ==
  /\ retry.state = "thrown"
  /\ retry.h.maxRetries = 3
  /\ retry.calls = <<"estatus", "enet", "enet", "estatus">>

\* ===================================================================== C8
IsPost(e) == e.type = "post"
Posts(trace) == SelectSeq(trace, IsPost)

\* C8: send delivers the chunks strictly in input order: the transport call
\* for chunk i+1 is not started until chunk i has been sent successfully;
\* the fixed wait (500 ms) occurs between every two consecutive chunk sends
\* and not after the last; on full success the result list has one success
\* entry per chunk, in order.
C8_InOrder ==
  sender.pc \notin {"idle"} =>
    LET trace == sender.trace
        posts == Posts(trace)
        n == Len(sender.messages)
    IN  /\ \A j \in 1..Len(posts) :
             /\ posts[j].content = sender.messages[posts[j].index]
             /\ posts[j].index =
                  IF j = 1 THEN 1
                  ELSE IF posts[j - 1].outcome = "ok" THEN posts[j - 1].index + 1
                  ELSE posts[j - 1].index
        /\ \A j \in 1..Len(trace) :
             LET sent == IsPost(trace[j]) /\ trace[j].outcome = "ok" /\ trace[j].index < n
             IN  /\ sent => (j < Len(trace) /\ trace[j + 1] = Wait(500))
                 /\ ~IsPost(trace[j]) =>
                      (j > 1 /\ IsPost(trace[j - 1]) /\ trace[j - 1].outcome = "ok"
                       /\ trace[j - 1].index < n /\ trace[j] = Wait(500))
        /\ sender.pc = "waiting" => (trace # <<>> /\ trace[Len(trace)] = Wait(500))
        /\ sender.pc = "returned" =>
             /\ sender.results = [i \in 1..n |-> [success |-> TRUE, index |-> i]]
             /\ \A i \in 1..n :
                  Cardinality({ j \in 1..Len(posts) :
                                  posts[j].index = i /\ posts[j].outcome = "ok" }) = 1

\* two chunks delivered, the first after a failed attempt
C8_Witness ==
  /\ sender.pc = "returned"
  /\ sender.messages = <<"m2", "m1">>
  /\ Len(Posts(sender.trace)) = 3
  /\ Len(sender.trace) = 4

\* ===================================================================== C9
PostsOf(trace, index) ==
  { j \in 1..Len(trace) : IsPost(trace[j]) /\ trace[j].index = index }

\* C9: when the send of chunk k fails after retry exhaustion, send throws
\* that failure to its caller, no transport call is made for a chunk after
\* k, and the sequencer does not attempt chunk k again: at most
\* maxRetries + 1 transport calls per chunk in one send.
C9_Abort ==
  sender.pc \notin {"idle"} =>
    LET trace == sender.trace
        max == DiscordHandler.maxRetries + 1
    IN  \A k \in 1..Len(sender.messages) :
          LET failed == { j \in PostsOf(trace, k) : trace[j].outcome # "ok" }
          IN  /\ Cardinality(PostsOf(trace, k)) <= max
              /\ Cardinality(failed) = max =>
                   /\ sender.pc = "thrown"
                   /\ \E j \in failed :
                        /\ \A j2 \in failed : j2 <= j
                        /\ j = Len(trace)
                        /\ sender.thrown = Error(max, trace[j].outcome)
                   /\ \A k2 \in (k + 1)..Len(sender.messages) : PostsOf(trace, k2) = {}

\* the second of two chunks fails four times, with failures of two kinds
C9_Witness ==
  /\ sender.pc = "thrown"
  /\ Len(sender.messages) = 2
  /\ Cardinality(PostsOf(sender.trace, 2)) = 4
  /\ sender.trace[Len(sender.trace)].outcome = "enet"
  /\ sender.trace[Len(sender.trace) - 1].outcome = "estatus"

\* ==================================================================== C10
\* C10: a failed write of the backing file in save() is thrown to the caller
\* of save(); in a run it reaches the catch block of main: after a failed
\* persist the run makes no further step of its normal path, never exits
\* with status 0, and exits with a non-zero status.
C10_PersistFatal ==
  (run.pc # "idle" /\ run.persistFailed) =>
    /\ last.threw
    /\ run.error \in {"filterNew", "save", "cleanup"}
    /\ run.pc \in {"notify", "exited"}
    /\ run.code # 0
    /\ run.pc = "exited" => run.code = 1

\* the write of line 231 is torn, the error notification fails as well, the
\* process has exited
C10_Witness ==
  /\ run.pc = "exited"
  /\ run.persistFailed
  /\ run.error = "save"
  /\ run.code = 1
  /\ disk = GarbageFile
  /\ sender.pc = "thrown"

\* ==================================================================== C11
\* C11: persisting is an atomic replace: whatever happens during save(), the
\* backing file afterwards holds either the complete content it held before
\* or the complete new content, never a truncated one.
C11_AtomicReplace ==
  [][disk' = disk \/ disk' = Stringify(cache')]_vars

\* ==================================================================== C12
\* C12: when the version in the backing file differs from the expected one,
\* load() discards every entry (the store in memory is empty) and rewrites
\* the file with the expected version before it returns.
C12_VersionReset ==
  [][(disk.kind = "object" /\ disk.version # CACHE_VERSION
      /\ last'.name = "load" /\ ~last'.threw)
     => (cache' = createEmptyCache(now) /\ disk' = Stringify(cache'))]_vars

\* ==================================================================== C13
\* C13: an unreadable, malformed or structurally invalid backing file (an
\* object of the expected version without its partitions map included) is
\* absorbed by load(): once the load has completed, a later filterNew of the
\* run does not raise.
C13_Absorbed ==
  (last.name = "filterNew" /\ loaded) => ~last.threw

\* C14: when the backing file does not exist, a load() that returns has
\* created an empty store of the expected version and written it: the file
\* then exists, parses back to the store in memory and holds no entry.
C14_CreatedAndPersisted ==
  (last.name = "load" /\ last.found = "absent" /\ ~last.threw)
    => /\ cache = createEmptyCache(now)
       /\ disk = Stringify(cache)
       /\ disk.kind = "object"
       /\ disk.version = CACHE_VERSION
       /\ disk.entries = {}
       /\ ParseObject(disk) = cache

C14_Witness ==
  /\ last.name = "load" /\ last.found = "absent" /\ ~last.threw
  /\ disk.kind = "object" /\ disk.entries = {}
  /\ cache.hasArticles /\ ~cache.isNull

\* C15: cleanup removes, in every partition, each entry whose timestamp is
\* older than now minus the retention window and keeps, with its timestamp,
\* each entry that is not older: an entry one day older than the cutoff is
\* gone, an entry one day younger is still there.
C15_Boundary ==
  (last.name = "cleanup" /\ ~last.pre.isNull /\ last.pre.hasArticles)
    => /\ DOMAIN cache.articles = DOMAIN last.pre.articles
       /\ \A s \in DOMAIN last.pre.articles :
            /\ DOMAIN cache.articles[s] \subseteq DOMAIN last.pre.articles[s]
            /\ \A h \in DOMAIN last.pre.articles[s] :
                 LET ts == last.pre.articles[s][h]
                 IN  /\ ts < now - retentionDays => h \notin DOMAIN cache.articles[s]
                     /\ ts >= now - retentionDays
                          => (h \in DOMAIN cache.articles[s] /\ cache.articles[s][h] = ts)

C15_Witness ==
  /\ last.name = "cleanup" /\ ~last.threw /\ ~last.pre.isNull /\ last.pre.hasArticles
  /\ \E s1, s2 \in DOMAIN last.pre.articles :
       \E h1 \in DOMAIN last.pre.articles[s1], h2 \in DOMAIN last.pre.articles[s2] :
         /\ s1 # "hackernews"
         /\ last.pre.articles[s1][h1] = now - retentionDays - 1
         /\ last.pre.articles[s2][h2] = now - retentionDays + 1
         /\ h1 \notin DOMAIN cache.articles[s1]
         /\ h2 \in DOMAIN cache.articles[s2]
  /\ disk = Stringify(cache)

\* C16: once an item with some canonical URL has been recorded under one
\* source key, filterNew does not return an item with the same canonical URL
\* offered under another source key.
C16_CrossSource ==
  (last.name = "filterNew" /\ ~last.threw /\ ~last.pre.isNull /\ last.pre.hasArticles)
    => \A i \in 1..Len(last.ret) :
         ~\E s \in DOMAIN last.pre.articles :
            \E h \in DOMAIN last.pre.articles[s] :
              h[2] = last.ret[i].url /\ h[1] # last.ret[i].source

\* What is left of a written URL when the slash ending its path and its
\* tracking parameters (with the "?" that only introduced them) are set aside.
Bare(u) ==
  LET others == SelectSeq(u.params, notUtm)
  IN  [pad |-> u.pad, valid |-> u.valid, upper |-> u.upper, path |-> u.path,
       hasQuery |-> u.hasQuery /\ (u.params = <<>> \/ others # <<>>),
       params |-> others]

\* C17: for one source, two URLs have the same fingerprint exactly when they
\* differ at most by a trailing slash and by tracking parameters of the
\* removal set.
C17_Stability ==
  ids.pc = "made" => ((Bare(ids.a) = Bare(ids.b)) <=> (ids.idA = ids.idB))

OnDisk(hash) == disk.kind = "object" /\ \E e \in disk.entries : e[2] = hash

\* C18: in a run that delivers a digest the store is persisted after the
\* chunks have been sent: as long as the send has not returned, the backing
\* file does not yet hold every item the run has recorded and is delivering.
C18_PersistAfterSend ==
  (run.pc = "send" /\ sender.pc # "returned")
    => \E s \in SourceKeys :
         \E i \in 1..Len(run.newArticlesBySource[s]) :
           ~OnDisk(getHash(run.newArticlesBySource[s][i]))

\* C19: the delay before the retry that follows attempt a is
\* floor(min(baseDelay * 2^a, maxDelay) * f), f being 1 without jitter and in
\* [0.5, 1.5) with jitter; each delay is below 1.5 * maxDelay, and the time one
\* execute call has been suspended, the running delay included, is at most
\* maxRetries * maxDelay * 1.5.
C19_Delays ==
  retry.state # "idle" =>
    LET h == retry.h
        capped == Min(h.baseDelay * 2^retry.attempt, h.maxDelay)
    IN  /\ retry.state = "sleeping" =>
              /\ IF h.jitter
                 THEN \E f \in 500..1499 : retry.delay = (capped * f) \div 1000
                 ELSE retry.delay = capped
              /\ 2 * retry.delay < 3 * h.maxDelay
        /\ 2 * (slept + retry.delay) <= 3 * h.maxRetries * h.maxDelay

C19_Witness ==
  /\ retry.state = "thrown"
  /\ retry.h.jitter
  /\ retry.sleeps = retry.h.maxRetries
  /\ retry.h.maxRetries = RETRY_maxRetries
  /\ 2 * slept > 3 * RETRY_maxDelay

BeginsWith(str, prefix) ==
  Len(str) >= Len(prefix) /\ SubSeq(str, 1, Len(prefix)) = prefix

Emitted(p) == IF p.pc = "done" THEN p.result ELSE p.chunks

Chars(str) == { str[i] : i \in 1..Len(str) }

\* C21: a footer (not empty) is in exactly one returned chunk, the last one:
\* the last open chunk with the footer appended when that stays within L;
\* otherwise the last open chunk as it is (when it holds more than the
\* header) followed by a final chunk of header and footer only.
C21_FooterLast ==
  (packer.pc = "done" /\ packer.footer # <<>>) =>
    LET n == Len(packer.result)
        testWithFooter == packer.cur \o packer.footer
    IN  /\ n >= 1
        /\ \A i \in 1..(n - 1) : "F" \notin Chars(packer.result[i])
        /\ IF Len(testWithFooter) <= packer.L
           THEN packer.result[n] = testWithFooter
           ELSE /\ packer.result[n] = Fresh(packer.header) \o packer.footer
                /\ Len(packer.cur) > Len(packer.header) + 2
                     => (n >= 2 /\ packer.result[n - 1] = packer.cur)

C21_Witness ==
  /\ packer.pc = "done" /\ packer.footer # <<>>
  /\ packer.sections # <<>>
  /\ Len(packer.cur \o packer.footer) > packer.L
  /\ Len(packer.result) >= 2
  /\ packer.result[Len(packer.result)] = Fresh(packer.header) \o packer.footer
  /\ packer.result[Len(packer.result) - 1] = packer.cur

C21_WitnessFits ==
  /\ packer.pc = "done" /\ packer.footer # <<>>
  /\ packer.sections # <<>>
  /\ Len(packer.cur \o packer.footer) <= packer.L
  /\ packer.result[Len(packer.result)] = packer.cur \o packer.footer

\* C22: with an empty section list the packer returns exactly one chunk,
\* header and footer, whatever the header and the footer: also with an empty
\* footer and with a footer that does not fit within L.
C22_NoSections ==
  (packer.pc = "done" /\ packer.sections = <<>>)
    => packer.result = << Fresh(packer.header) \o packer.footer >>

C22_Witness ==
  /\ packer.pc = "done" /\ packer.sections = <<>>
  /\ packer.footer = <<>>
  /\ Len(packer.result) = 1

C22_WitnessLong ==
  /\ packer.pc = "done" /\ packer.sections = <<>>
  /\ Len(Fresh(packer.header) \o packer.footer) > packer.L
  /\ Len(packer.result) = 1

\* C23: only a section that exceeds L when placed alone behind a fresh
\* header is hard-split: while the packer is cutting, the section it is
\* placing does not fit behind the header within L.
C23_OnlyOversized ==
  packer.pc = "split"
    => Len(Fresh(packer.header) \o packer.sections[packer.idx]) > packer.L

\* where the priority of the cut puts it, in the first L characters
CutOf(prefix) ==
  LET boundary == lastIndexOfNLNL(prefix)
      newline == lastIndexOfNL(prefix)
  IN  IF boundary >= 0 /\ boundary * 10 > Len(prefix) * 7 THEN boundary + 2
      ELSE IF newline >= 0 /\ newline * 10 > Len(prefix) * 8 THEN newline + 1
      ELSE (Len(prefix) * 9) \div 10

\* C24: a step of the hard split cuts the first L characters of the oversized
\* chunk just after the last double newline when that lies after 70% of them,
\* else just after the last newline when that lies after 80%, else at 90% of
\* L rounded down; it emits the characters before the cut and goes on with
\* the header followed by the remainder (line breaks apart).
C24_CutPoint ==
  [][(packer.pc = "split" /\ packer' # packer) =>
       LET prefix == SubSeq(packer.cur, 1, packer.L)
           cut == CutOf(prefix)
           remainder == SubSeq(packer.cur, cut + 1, Len(packer.cur))
       IN  /\ Len(prefix) = packer.L
           /\ packer'.chunks = Append(packer.chunks, SubSeq(prefix, 1, cut))
           /\ NoBreaks(packer'.cur) = NoBreaks(packer.header \o remainder)]_vars

\* C24, the cut and the emitted piece alone
C24_CutOnly ==
  [][(packer.pc = "split" /\ packer' # packer) =>
       LET prefix == SubSeq(packer.cur, 1, packer.L)
       IN  packer'.chunks = Append(packer.chunks, SubSeq(prefix, 1, CutOf(prefix)))]_vars

\* the errors main's try block can end with
FatalErrors == {"filterNew", "save", "cleanup", "not_set", "send"}

\* C25 as stated: sendError never raises to its caller, so a sendError in
\* progress in the catch block never ends by throwing.
C25_Original ==
  run.pc = "notify" => sender.pc # "thrown"

\* C25: what sendError throws is caught by the catch block of main, its only
\* caller: once main has caught an error, that error stays the run's error,
\* nothing of the normal path follows, and the run exits with status 1
\* whether the notification was sent or failed.
C25_SwallowedByMain ==
  (run.pc # "idle" /\ run.error # "") =>
    /\ run.error \in FatalErrors
    /\ run.pc \in {"notify", "exited"}
    /\ run.pc = "exited" => run.code = 1

C25_Witness ==
  /\ run.pc = "exited"
  /\ run.error = "cleanup"
  /\ run.code = 1
  /\ sender.pc = "thrown"
  /\ sender.messages = <<"m1">>
  /\ Cardinality(PostsOf(sender.trace, 1)) = DISCORD_maxRetries + 1

\* C26: sendError sends exactly one chunk, and that chunk is not longer than
\* the transport ceiling, whatever the length of the error's message or
\* stack.
C26_Bounded ==
  sender.pc \in {"sending", "returned"} =>
    /\ Len(sender.messages) = 1
    /\ Len(sender.messages[1]) <= DISCORD_maxLength

\* C27: a notifier whose URL does not match the expected webhook host and
\* path prefix refuses to send: its send makes no transport call to that URL
\* and delivers nothing.
C27_Validated ==
  (sender.pc # "idle" /\ ~isValidWebhookUrl(sender.webhookUrl))
    => /\ sender.trace = <<>>
       /\ sender.results = <<>>

\* C28: a transport call is a success exactly when it answers with a 2xx
\* status; after any other outcome (another status, a network error, a
\* timeout) the same chunk is posted again, unless that was the last of the
\* maxRetries + 1 attempts, and after a success it is not posted again.
C28_Retryable ==
  /\ \A t \in TransportOutcomes :
       (postFn(t) = "ok") <=> (t.kind = "response" /\ t.status >= 200 /\ t.status <= 299)
  /\ sender.pc # "idle" =>
       LET trace == sender.trace
       IN  \A j \in { i \in 1..Len(trace) : IsPost(trace[i]) } :
             LET later == { j2 \in PostsOf(trace, trace[j].index) : j2 > j }
             IN  IF trace[j].outcome = "ok" THEN later = {}
                 ELSE \/ later # {}
                      \/ /\ sender.pc = "sending"
                         /\ retry.state \in {"sleeping", "calling"}
                         /\ retry.attempt < DiscordHandler.maxRetries + 1
                      \/ /\ sender.pc = "thrown"
                         /\ Cardinality(PostsOf(trace, trace[j].index))
                              = DiscordHandler.maxRetries + 1

C28_Witness ==
  /\ sender.pc = "returned"
  /\ Len(sender.trace) = 3
  /\ sender.trace[1].outcome = "estatus"
  /\ sender.trace[2].outcome = "enet"
  /\ sender.trace[3].outcome = "ok"

\* C29: a run that completes normally exits with status 0; a run whose
\* try block ends with an error exits with status 1, and when an endpoint is
\* configured and the run is no dry run it exits only after the error
\* notification has been attempted and has ended, sent or failed.
C29_Exit ==
  [][(run.pc \notin {"idle", "exited"} /\ run'.pc = "exited") =>
       /\ run'.code \in {0, 1}
       /\ run'.code = 0 <=> run'.error = ""
       /\ (run'.error # "" /\ run.webhookUrl # "" /\ ~run.dryRun)
            => /\ run.pc = "notify"
               /\ sender.pc \in {"returned", "thrown"}
               /\ sender.trace # <<>>]_vars

C29_Witness ==
  /\ run.pc = "exited"
  /\ run.error = "send"
  /\ run.code = 1
  /\ sender.pc = "returned"
  /\ sender.messages = <<"m1">>

TotalNew(r) ==
  Len(r.newArticlesBySource["hackernews"]) + Len(r.newArticlesBySource["qiita"])
    + Len(r.newArticlesBySource["zenn"])

\* C30: in a run in which one or two of the three sources failed and a
\* source that succeeded has yielded articles, the failed source does not end
\* the run: the run ends in the catch block only when a write of the backing
\* file has failed (or the file lacks its articles map), the endpoint is
\* missing or the delivery has failed, and
\* when it ends normally with new items, outside dry-run, the digest of the
\* sources that succeeded has been delivered.
C30_PartialFailure ==
  (/\ run.pc \notin {"idle", "fetch"}
   /\ run.errors # {} /\ run.errors # SourceKeys
   /\ \E s \in SourceKeys \ run.errors : run.articlesBySource[s] # <<>>) =>
    /\ run.error # "" =>
         \/ /\ run.error \in {"filterNew", "save", "cleanup"}
            /\ last.threw
            /\ run.persistFailed \/ ~cache.hasArticles
         \/ run.error \in {"not_set", "send"}
    /\ (run.pc = "exited" /\ run.error = "" /\ ~run.dryRun /\ TotalNew(run) > 0)
         => /\ sender.pc = "returned"
            /\ Len(sender.results) = Len(sender.messages)
            /\ Len(sender.results) >= 1
            /\ \A s \in run.errors : run.newArticlesBySource[s] = <<>>

C30_Witness ==
  /\ run.pc = "exited"
  /\ run.code = 0
  /\ Cardinality(run.errors) = 2
  /\ "hackernews" \in run.errors
  /\ TotalNew(run) = 1
  /\ sender.pc = "returned"
  /\ Len(sender.results) >= 1

\* C31: in a dry run no transport call is made: no notifier is constructed,
\* neither for the digest on the normal path nor for the error notification
\* in the catch block, so no post and no wait is ever recorded.
C31_DryRunSilent ==
  (run.pc # "idle" /\ run.dryRun) =>
    /\ run.pc \notin {"send", "notify"}
    /\ sender.pc = "idle"
    /\ retry.state = "idle"

\* a dry run with an endpoint configured that has ended in the catch block
C31_Witness ==
  /\ run.dryRun
  /\ run.webhookUrl # ""
  /\ run.pc = "exited"
  /\ run.code = 1
  /\ run.error # ""

\* a dry run with an endpoint configured that has listed a new article
C31_WitnessNormal ==
  /\ run.dryRun
  /\ run.webhookUrl # ""
  /\ run.pc = "exited"
  /\ run.code = 0
  /\ TotalNew(run) > 0

\* the delivery sequencer or the retry executor is between two of its steps
Suspended ==
  \/ sender.pc \in {"sending", "waiting"}
  \/ retry.state \in {"calling", "sleeping"}

\* C32: within a run the store operations execute one after another: the
\* store is untouched while the fetches are pending, a filterNew after the
\* first of the run finds the store loaded and does not load it again, the
\* store changes only in a step of main that is a filterNew, the save or the
\* cleanup, and nothing of the store changes while the delivery sequencer or
\* the retry executor is suspended.
C32_Sequential ==
  /\ [](run.pc = "fetch" => cache.isNull /\ ~loaded /\ last.name \in {"none", "start"})
  /\ [][/\ ((last'.name = "filterNew" /\ last.name = "filterNew" /\ run.pc = "filter")
              => (loaded /\ disk' = disk /\ last'.pre = cache))
         /\ ((<<disk, cache, loaded, saved>>' # <<disk, cache, loaded, saved>>)
              => (run.pc \in {"filter", "cleanup", "exited"} /\ ~Suspended))
         /\ (Suspended => UNCHANGED <<disk, cache, loaded, saved, last>>)]_vars

\* the sequencer waits between two chunks while the store holds what two
\* calls of filterNew recorded in this run
C32_Witness ==
  /\ run.pc = "send"
  /\ sender.pc = "waiting"
  /\ loaded
  /\ Len(run.newArticlesBySource["hackernews"]) = 1
  /\ Len(run.newArticlesBySource["zenn"]) = 1

\* C33: in every run the store has been loaded before it is persisted: a save
\* called by main finds the store loaded and does not throw unless the write
\* fails, and a run in which every source yields zero articles ends with
\* status 0 and without a notifier.
C33_LoadedBeforeSave ==
  /\ (run.pc # "idle" /\ last.name = "save") =>
        /\ loaded
        /\ last.threw => run.persistFailed
  /\ (run.pc = "exited" /\ run.errors = {} /\ run.articlesBySource = NoArticles) =>
        /\ run.code = 0
        /\ sender.pc = "idle"

\* the fingerprints of the articles of the digest of run r
Offered(r) ==
  UNION { { getHash(r.newArticlesBySource[s][i]) :
              i \in 1..Len(r.newArticlesBySource[s]) } : s \in SourceKeys }

\* C34: over runs that share the backing file, with the clock standing still
\* so that no entry leaves the retention window, an article is handed to
\* notifier.send in at most one run: no article of the digest a run is sending
\* was in the digest an earlier run handed to send; and when the delivery of
\* a run has failed for good, the file holds every article of its digest.
C34_AtMostOnce ==
  /\ run.pc = "send" => Offered(run) \cap run.sentBefore = {}
  /\ run.error = "send" => \A h \in Offered(run) : OnDisk(h)

\* C35: an item recorded by filterNew is not evicted by a cleanup executed in
\* the same process, whatever its publication time: after a cleanup that
\* follows a filterNew, the store still contains every item that filterNew
\* returned.
C35_KeptInRun ==
  [][(last.name = "filterNew" /\ ~last.threw /\ last'.name = "cleanup")
       => \A i \in 1..Len(last.ret) : InStore(cache', getHash(last.ret[i]))]_vars

\* C36: the hard-split loop terminates: every iteration of the while loop
\* leaves a pending chunk strictly shorter than the one it found, and the
\* piece it emits reaches beyond the header into the pending section.
C36_Terminates ==
  [][packer.pc = "split" =>
       /\ Len(packer'.cur) < Len(packer.cur)
       /\ Len(packer'.chunks[Len(packer'.chunks)]) > Len(Fresh(packer.header))]_vars

\* C36, for a header that with its two line breaks is shorter than every
\* piece the loop can cut: there the pending chunk does get strictly shorter
C36_ShortHeader ==
  [][(packer.pc = "split" /\ packer.header = <<"H">>) =>
       Len(packer'.cur) < Len(packer.cur)]_vars

\* the fingerprints of the articles the fetchers handed to run r
Fetched(r) ==
  UNION { { getHash(r.articlesBySource[s][i]) :
              i \in 1..Len(r.articlesBySource[s]) } : s \in SourceKeys }

\* C37: the limit of maxArticlesPerSection is applied after recording: the
\* digest of a run holds at most that many articles of a source and none of
\* those the limit cut; once the save of the run has returned, the backing
\* file holds every article the fetchers handed over, those cut included;
\* and no article of a digest is one that an earlier run cut and that the
\* file held when the run started.
C37_LimitAfterRecord ==
  /\ \A s \in SourceKeys :
        Len(run.newArticlesBySource[s]) <= run.maxArticlesPerSection
  /\ Offered(run) \cap run.cut = {}
  /\ Offered(run) \cup run.cut \subseteq Fetched(run)
  /\ (run.pc \in {"cleanup", "send"} \/ (run.pc = "exited" /\ run.code = 0))
       => \A h \in Fetched(run) : OnDisk(h)
  /\ Offered(run) \cap run.cutOnFile = {}

\* a second run has ended normally; the feed listed again an article that
\* the first run had cut from its digest
C37_Witness ==
  /\ run.n = 2
  /\ run.pc = "exited"
  /\ run.code = 0
  /\ Fetched(run) \cap run.cutOnFile # {}
  /\ run.articlesBySource["hackernews"][1].url = "https://example.com/b"

\* a run is sending a digest from which the limit has cut an article
C37_WitnessCut ==
  /\ run.pc = "send"
  /\ run.cut # {}
  /\ Offered(run) # {}

\* the chunk holds a character of a section that is no whitespace: the
\* header is made of "H", the footer of "F"
HasContent(chunk) == \E k \in 1..Len(chunk) : chunk[k] = "a"

\* C38: no header-only chunk is emitted.  For a header shorter than every
\* cut and sections that each hold a character other than whitespace, at
\* least one of them: every chunk returned holds such a character of a
\* section, but for a last chunk that is the header and the footer alone.
C38_NoHeaderOnly ==
  (/\ packer.pc = "done"
   /\ packer.header = <<"H">>
   /\ packer.sections # <<>>
   /\ \A j \in 1..Len(packer.sections) : HasContent(packer.sections[j])) =>
    \A i \in 1..Len(packer.result) :
      \/ HasContent(packer.result[i])
      \/ /\ i = Len(packer.result)
         /\ packer.result[i] = Fresh(packer.header) \o packer.footer

\* C39: a dry run is not read-only on the store: when a dry run has printed
\* its digest, the backing file holds every article of it; and the run that
\* follows puts none of those articles into its digest.
C39_DryRunRecords ==
  /\ (run.dryRun /\ run.pc = "exited" /\ run.code = 0)
       => \A h \in Offered(run) : OnDisk(h)
  /\ Offered(run) \cap run.listedDry = {}

\* a run without --dry-run, after a dry run that listed articles, has been
\* handed the same articles again and has ended without a notifier
C39_Witness ==
  /\ run.n = 2
  /\ ~run.dryRun
  /\ run.listedDry # {}
  /\ Fetched(run) = run.listedDry
  /\ run.pc = "exited"
  /\ run.code = 0
  /\ sender.pc = "idle"

====
